---- MODULE Spec2Model ----
(***************************************************************************)
(* Verification model of botMaster's agent runtime:                        *)
(*   botmaster/agent_runtime.py  AgentWorker (mailbox + worker thread) and *)
(*                               AgentManager (registry)                   *)
(*   botmaster/storage.py        Storage (agents, sessions, messages)      *)
(* Every storage call is one sqlite transaction and every queue / event    *)
(* operation is atomic, so each is one step of the thread that makes it.   *)
(* Spec is the agent runtime.  SpecStream is the queue-based streaming     *)
(* provider of _archive-2025-10-25/botmaster/llm_providers.py, with its    *)
(* reader threads, its child process and one caller.                       *)
(***************************************************************************)
EXTENDS Integers, Sequences, FiniteSets, TLC

(* ----------------------------- bounds --------------------------------- *)
\* number of AgentManager.spawn calls explored
MaxSpawn == 2
\* number of texts accepted into mailboxes, over all agents
MaxSubmit == 2

\* Settings.max_context_messages (config.py: BM_MAX_CONTEXT_MESSAGES, default
\* "20"); the environment sets it, a small window is explored here.
max_context_messages == 2

\* every agent is spawned under the same name
Names == {"core"}
Replies == {"ok"}
Errors == {"boom"}

AgentIds == 1..MaxSpawn
\* ids a caller may pass to the manager: MaxSpawn + 1 is never allocated
CallIds == 1..(MaxSpawn + 1)
\* AgentManager.__init__: self.provider, the one instance the manager holds
ManagerProvider == "provider0"

VARIABLES
    agents,        \* storage table agents: row id -> [name, status]
    sessions,      \* storage table sessions: row id -> agent_id
    messages,      \* storage table messages: session_id -> its rows [role, content]
    mgr_agents,    \* AgentManager._agents (the registered agent ids)
    spec,          \* AgentWorker.spec, per worker
    provider,      \* AgentWorker.provider, per worker
    inbox,         \* AgentWorker.inbox, per worker
    stop_flag,     \* AgentWorker._stop, per worker
    pc,            \* position of the worker thread in run()
    user_text,     \* run(): local user_text
    msgs,          \* run(): local msgs
    reply,         \* run(): local reply
    ret,           \* the last AgentManager call: [op, val], val what it returned
    enqueued,      \* history: texts accepted into each inbox, in order
    outcomes,      \* history: how each finished generate call of a worker ended
    spawn_ret,     \* history: ids of the specs AgentManager.spawn returned
    stop_true,     \* history: ids for which AgentManager.stop returned True
    delivered,     \* history: the calls of the manager's reply callback, [agent, text]
    stop_at,       \* history, kept by SpecStop: stop() reached the worker during a turn
    \* ---- ClaudeCLIStreamProvider (queue-based) ----
    instructions,  \* self.instructions ("" for None)
    proc,          \* self._proc: "none", "running" or "exited" (poll() is not None)
    returncode,    \* self._proc.returncode
    launch_session, \* the --session-id the current child was launched with
    started,       \* self._started
    first_message_sent, \* self._first_message_sent
    last_error,    \* self._last_error ("" for None)
    ready_event,   \* self._ready_event
    queue,         \* self._queue
    stdin,         \* the lines written to the standard input of the current child
    stdout_pipe,   \* output of the current child not read yet
    readers,       \* number of _reader threads that have not ended
    ereaders,      \* number of _stderr_reader threads that have not ended
    gpc,           \* position of the caller inside generate
    payload,       \* generate(): the outbound object
    parts,         \* generate(): local parts
    elapsed,       \* time since generate() set its deadline, in ticks
    gather_elapsed, \* time since the first chunk of the call, in ticks
    get_elapsed,   \* time since the current gather get started, in ticks
    result,        \* what the last generate call returned
    calls,         \* number of generate calls that have returned
    all_out,       \* history: the lines emitted since the last call began
    emitted,       \* history: number of lines the children have emitted
    \* ---- overlapping generate calls and self._lock ----
    lock,          \* self._lock: 0 when free, else the caller that holds it
    lpc,           \* position of each calling thread inside generate
    lcalls,        \* number of generate calls begun
    my_call,       \* the number of the call each calling thread is in
    oplog,         \* history: the drains, writes and flushes, [caller, call, op]
    \* ---- _content_to_text applied to the shapes of a content ----
    ct_s,          \* the text s of the plain string and of the single block
    ct_blocks,     \* the texts of the blocks of the list
    ct_out,        \* per shape: <<>> or <<the text _content_to_text returned>>
    \* ---- AgentSpawner ----
    active_sessions, \* self.active_sessions: session id -> AgentSession
    session_count, \* number of session ids generated by spawn_agent
    child,         \* per session id: "none", "running" or "exited" (the process)
    exit_code,     \* per session id: the exit code of the process once exited
    returncode_of, \* per session id: session.process.returncode (set by poll/wait)
    agent_sessions, \* the storage table: session id -> [status, exit_code]
    sp_call,       \* the last AgentSpawner call: [op, sid, raised]
    \* ---- TelegramClient ----
    offset,        \* self._offset
    poll_stop,     \* self._stop of the client
    tpc,           \* position of the thread tg-poll: idle, head, loop, handle, done
    batch,         \* the updates of the current batch not yet looked at
    upd,           \* the update the loop is at (0: none)
    updates,       \* the server: the kind of every update so far; update_id = index
    handled,       \* history: per update, how often it was passed to a handler
    failed         \* history: the updates whose handler raised

runtime_vars == <<agents, sessions, messages, mgr_agents, spec, provider, inbox,
                  stop_flag, pc, user_text, msgs, reply, ret, enqueued, outcomes,
                  spawn_ret, stop_true, delivered, stop_at>>

provider_fields == <<instructions, started, first_message_sent, last_error,
                     ready_event, queue>>
child_vars == <<proc, returncode, launch_session, stdin, stdout_pipe>>
reader_vars == <<readers, ereaders>>
call_vars == <<gpc, payload, parts, result, calls>>
clock_vars == <<elapsed, gather_elapsed, get_elapsed>>

history_out == <<all_out, emitted>>

stream_vars == <<provider_fields, child_vars, reader_vars, call_vars, clock_vars,
                 history_out>>

lock_vars == <<lock, lpc, lcalls, my_call, oplog>>

\* the variables outside the runtime and outside the provider
text_vars == <<ct_s, ct_blocks, ct_out>>
spawner_vars == <<active_sessions, session_count, child, exit_code, returncode_of,
                  agent_sessions, sp_call>>
telegram_vars == <<offset, poll_stop, tpc, batch, upd, updates, handled, failed>>
extra_vars == <<lock_vars, text_vars, spawner_vars, telegram_vars>>
outside_runtime == <<stream_vars, extra_vars>>
outside_stream == <<runtime_vars, extra_vars>>

vars == <<runtime_vars, stream_vars, extra_vars>>

history_vars == <<enqueued, outcomes, spawn_ret, stop_true, delivered>>

storage_vars == <<agents, sessions, messages>>
worker_locals == <<user_text, msgs, reply>>

(* ----------------------------- storage -------------------------------- *)
\* The messages table is kept as its rows grouped by session_id, each group
\* in ascending row id: every query of the code filters on one session_id
\* and orders by id, so the relative order of rows of two different sessions
\* is read by nothing.
SessionIds == 1..MaxSpawn

\* Storage.add_message: INSERT one row, the highest id of its session
add_message(session_id, role, content) ==
    [messages EXCEPT ![session_id] = Append(@, [role |-> role, content |-> content])]

RECURSIVE Take(_, _)
Take(s, n) == IF n = 0 \/ s = <<>> THEN <<>> ELSE <<Head(s)>> \o Take(Tail(s), n - 1)

\* Storage.get_messages: SELECT ... WHERE session_id=? ORDER BY id ASC, and
\* "if limit:" appends LIMIT ?
get_messages(session_id, limit) ==
    IF limit # 0 THEN Take(messages[session_id], limit)
                 ELSE messages[session_id]

(* ----------------------------- worker --------------------------------- *)
\* run(): the text of the initial announce (project_path is None)
announce(name) == "Agent " \o name \o " gestartet. Projekt: -"

\* run(): reply = f"[Fehler bei LLM-Abfrage: {e}]"
error_reply(e) == "[Fehler bei LLM-Abfrage: " \o e \o "]"

\* run(): msgs built from history, keeping the user and assistant rows
RECURSIVE build_msgs(_)
build_msgs(history) ==
    IF history = <<>> THEN <<>>
    ELSE LET m == Head(history) IN
         (IF m.role \in {"user", "assistant"}
             THEN <<[role |-> m.role, content |-> m.content]>> ELSE <<>>)
         \o build_msgs(Tail(history))

RuntimeInit ==
    /\ agents = <<>>
    /\ sessions = <<>>
    /\ messages = [sid \in SessionIds |-> <<>>]
    /\ mgr_agents = {}
    /\ spec = [a \in AgentIds |-> [id |-> 0, name |-> "", session_id |-> 0]]
    /\ provider = [a \in AgentIds |-> ""]
    /\ inbox = [a \in AgentIds |-> <<>>]
    /\ stop_flag = [a \in AgentIds |-> FALSE]
    /\ pc = [a \in AgentIds |-> "none"]
    /\ user_text = [a \in AgentIds |-> ""]
    /\ msgs = [a \in AgentIds |-> <<>>]
    /\ reply = [a \in AgentIds |-> ""]
    /\ ret = [op |-> "none", val |-> FALSE]
    /\ enqueued = [a \in AgentIds |-> <<>>]
    /\ outcomes = [a \in AgentIds |-> <<>>]
    /\ spawn_ret = {}
    /\ stop_true = {}
    /\ delivered = <<>>
    /\ stop_at = [a \in AgentIds |-> FALSE]

(* ------------------------- AgentWorker.run ---------------------------- *)
\* run(): the initial announce, stored as a system turn
run_announce(a) ==
    /\ pc[a] = "start"
    /\ messages' = add_message(spec[a].session_id, "system", announce(spec[a].name))
    /\ pc' = [pc EXCEPT ![a] = "loop"]
    /\ UNCHANGED <<agents, sessions, mgr_agents, spec, provider, inbox, stop_flag,
                   worker_locals, ret, history_vars>>

\* mutant: a worker that finds its stop flag set empties its mailbox
run_check_stop_drains(a) ==
    /\ pc[a] = "loop"
    /\ pc' = [pc EXCEPT ![a] = IF stop_flag[a] THEN "done" ELSE "wait"]
    /\ inbox' = [inbox EXCEPT ![a] = IF stop_flag[a] THEN <<>> ELSE @]
    /\ UNCHANGED <<storage_vars, mgr_agents, spec, provider, stop_flag,
                   worker_locals, ret, history_vars>>

\* run(): "while not self._stop.is_set()"
run_check_stop(a) ==
    /\ pc[a] = "loop"
    /\ pc' = [pc EXCEPT ![a] = IF stop_flag[a] THEN "done" ELSE "wait"]
    /\ UNCHANGED <<storage_vars, mgr_agents, spec, provider, inbox, stop_flag,
                   worker_locals, ret, history_vars>>

\* mutant: the get returns the newest text of the inbox
run_get_newest(a) ==
    /\ pc[a] = "wait"
    /\ inbox[a] # <<>>
    /\ user_text' = [user_text EXCEPT ![a] = inbox[a][Len(inbox[a])]]
    /\ inbox' = [inbox EXCEPT ![a] = SubSeq(inbox[a], 1, Len(inbox[a]) - 1)]
    /\ pc' = [pc EXCEPT ![a] = "got"]
    /\ UNCHANGED <<storage_vars, mgr_agents, spec, provider, stop_flag, msgs, reply,
                   ret, history_vars>>

\* run(): self.inbox.get(timeout=0.5) returns the oldest text
run_get(a) ==
    /\ pc[a] = "wait"
    /\ inbox[a] # <<>>
    /\ user_text' = [user_text EXCEPT ![a] = Head(inbox[a])]
    /\ inbox' = [inbox EXCEPT ![a] = Tail(inbox[a])]
    /\ pc' = [pc EXCEPT ![a] = "got"]
    /\ UNCHANGED <<storage_vars, mgr_agents, spec, provider, stop_flag, msgs, reply,
                   ret, history_vars>>

\* run(): the get times out on an empty inbox (queue.Empty: continue)
run_get_empty(a) ==
    /\ pc[a] = "wait"
    /\ inbox[a] = <<>>
    /\ pc' = [pc EXCEPT ![a] = "loop"]
    /\ UNCHANGED <<storage_vars, mgr_agents, spec, provider, inbox, stop_flag,
                   worker_locals, ret, history_vars>>

\* mutant: the text taken from the mailbox is not stored
run_add_user_skipped(a) ==
    /\ pc[a] = "got"
    /\ messages' = messages
    /\ pc' = [pc EXCEPT ![a] = "ctx"]
    /\ UNCHANGED <<agents, sessions, mgr_agents, spec, provider, inbox, stop_flag,
                   worker_locals, ret, history_vars>>

\* run(): the user turn is stored
run_add_user(a) ==
    /\ pc[a] = "got"
    /\ messages' = add_message(spec[a].session_id, "user", user_text[a])
    /\ pc' = [pc EXCEPT ![a] = "ctx"]
    /\ UNCHANGED <<agents, sessions, mgr_agents, spec, provider, inbox, stop_flag,
                   worker_locals, ret, history_vars>>

\* run(): "Build context", then provider.generate(...) is entered
run_build_context(a) ==
    /\ pc[a] = "ctx"
    /\ msgs' = [msgs EXCEPT ![a] =
                  build_msgs(get_messages(spec[a].session_id, max_context_messages))]
    /\ pc' = [pc EXCEPT ![a] = "gen"]
    /\ UNCHANGED <<storage_vars, mgr_agents, spec, provider, inbox, stop_flag,
                   user_text, reply, ret, history_vars>>

\* run(): provider.generate returns the text r
generate_return(a, r) ==
    /\ pc[a] = "gen"
    /\ reply' = [reply EXCEPT ![a] = r]
    /\ pc' = [pc EXCEPT ![a] = "reply"]
    /\ outcomes' = [outcomes EXCEPT ![a] = Append(@, [raised |-> FALSE, val |-> r])]
    /\ UNCHANGED <<storage_vars, mgr_agents, spec, provider, inbox, stop_flag,
                   user_text, msgs, ret, enqueued, spawn_ret, stop_true, delivered>>

\* mutant: the exception of generate is not caught and ends the thread
generate_raise_propagates(a, e) ==
    /\ pc[a] = "gen"
    /\ pc' = [pc EXCEPT ![a] = "done"]
    /\ outcomes' = [outcomes EXCEPT ![a] = Append(@, [raised |-> TRUE, val |-> e])]
    /\ UNCHANGED <<storage_vars, mgr_agents, spec, provider, inbox, stop_flag,
                   worker_locals, ret, enqueued, spawn_ret, stop_true, delivered>>

\* run(): provider.generate raises e, "except Exception as e" makes it the reply
generate_raise(a, e) ==
    /\ pc[a] = "gen"
    /\ reply' = [reply EXCEPT ![a] = error_reply(e)]
    /\ pc' = [pc EXCEPT ![a] = "reply"]
    /\ outcomes' = [outcomes EXCEPT ![a] = Append(@, [raised |-> TRUE, val |-> e])]
    /\ UNCHANGED <<storage_vars, mgr_agents, spec, provider, inbox, stop_flag,
                   user_text, msgs, ret, enqueued, spawn_ret, stop_true, delivered>>

\* mutant: the reply is stored under the role of the user turn
run_add_assistant_as_user(a) ==
    /\ pc[a] = "reply"
    /\ messages' = add_message(spec[a].session_id, "user", reply[a])
    /\ pc' = [pc EXCEPT ![a] = "loop"]
    /\ UNCHANGED <<agents, sessions, mgr_agents, spec, provider, inbox, stop_flag,
                   worker_locals, ret, history_vars>>

\* mutant: a worker that has been told to stop drops the reply and ends
run_add_assistant_unless_stopped(a) ==
    /\ pc[a] = "reply"
    /\ IF stop_flag[a]
          THEN /\ pc' = [pc EXCEPT ![a] = "done"]
               /\ UNCHANGED messages
          ELSE /\ messages' = add_message(spec[a].session_id, "assistant", reply[a])
               /\ pc' = [pc EXCEPT ![a] = "loop"]
    /\ UNCHANGED <<agents, sessions, mgr_agents, spec, provider, inbox, stop_flag,
                   worker_locals, ret, history_vars>>

\* run(): the assistant turn is stored, back to the loop head
run_add_assistant(a) ==
    /\ pc[a] = "reply"
    /\ messages' = add_message(spec[a].session_id, "assistant", reply[a])
    /\ pc' = [pc EXCEPT ![a] = "loop"]
    /\ UNCHANGED <<agents, sessions, mgr_agents, spec, provider, inbox, stop_flag,
                   worker_locals, ret, history_vars>>

(* --------------------------- AgentManager ----------------------------- *)
\* Storage.create_agent / create_session: AUTOINCREMENT row ids
create_agent_id == Len(agents) + 1
\* mutant: the id of the newest existing row is returned for the new session
create_session_id_reuse == IF sessions = <<>> THEN 1 ELSE Len(sessions)
create_session_id == Len(sessions) + 1

\* number of texts accepted so far, over all workers
RECURSIVE TotalLen(_, _)
TotalLen(f, S) ==
    IF S = {} THEN 0
    ELSE LET x == CHOOSE y \in S : TRUE IN Len(f[x]) + TotalLen(f, S \ {x})

\* The texts a caller passes with agent_id: callers submit pairwise different
\* texts ("t<id>.<k>" is the k-th text sent to agent_id), so that a stored
\* turn names the call it came from.
Texts(agent_id) ==
    {"t" \o ToString(agent_id) \o "." \o
        ToString(IF agent_id \in AgentIds THEN Len(enqueued[agent_id]) + 1 ELSE 1)}

\* mutant: the started worker is not put into the registry
spawn_unregistered(name) ==
    /\ Len(agents) < MaxSpawn
    /\ LET agent_id == Len(agents) + 1
           session_id == Len(sessions) + 1
       IN /\ agents' = Append(agents, [name |-> name, status |-> "running"])
          /\ sessions' = Append(sessions, agent_id)
          /\ spec' = [spec EXCEPT ![agent_id] =
                        [id |-> agent_id, name |-> name, session_id |-> session_id]]
          /\ provider' = [provider EXCEPT ![agent_id] = ManagerProvider]
          /\ pc' = [pc EXCEPT ![agent_id] = "start"]
          /\ ret' = [op |-> "spawn", val |-> agent_id]
          /\ spawn_ret' = spawn_ret \cup {agent_id}
    /\ UNCHANGED <<messages, mgr_agents, inbox, stop_flag, worker_locals, enqueued,
                   outcomes, stop_true, delivered>>

\* AgentManager.spawn
spawn(name) ==
    /\ Len(agents) < MaxSpawn
    /\ LET agent_id == create_agent_id
           session_id == create_session_id
       IN /\ agents' = Append(agents, [name |-> name, status |-> "running"])
          /\ sessions' = Append(sessions, agent_id)
          /\ spec' = [spec EXCEPT ![agent_id] =
                        [id |-> agent_id, name |-> name, session_id |-> session_id]]
          /\ provider' = [provider EXCEPT ![agent_id] = ManagerProvider]
          /\ pc' = [pc EXCEPT ![agent_id] = "start"]
          /\ mgr_agents' = mgr_agents \cup {agent_id}
          /\ ret' = [op |-> "spawn", val |-> agent_id]
          /\ spawn_ret' = spawn_ret \cup {agent_id}
    /\ UNCHANGED <<messages, inbox, stop_flag, worker_locals, enqueued, outcomes,
                   stop_true, delivered>>

\* AgentWorker.submit: self.inbox.put(text)
worker_submit(a, text) ==
    /\ inbox' = [inbox EXCEPT ![a] = Append(@, text)]
    /\ enqueued' = [enqueued EXCEPT ![a] = Append(@, text)]

\* mutant: the lookup result is not returned, the call answers True always
submit_always_true(agent_id, text) ==
    /\ IF agent_id \notin mgr_agents
          THEN UNCHANGED <<inbox, enqueued>>
          ELSE /\ TotalLen(enqueued, AgentIds) < MaxSubmit
               /\ worker_submit(agent_id, text)
    /\ ret' = [op |-> "submit", val |-> TRUE]
    /\ UNCHANGED <<storage_vars, mgr_agents, spec, provider, stop_flag, pc,
                   worker_locals, outcomes, spawn_ret, stop_true, delivered>>

\* AgentManager.submit
submit(agent_id, text) ==
    /\ IF agent_id \notin mgr_agents
          THEN /\ ret' = [op |-> "submit", val |-> FALSE]
               /\ UNCHANGED <<inbox, enqueued>>
          ELSE /\ TotalLen(enqueued, AgentIds) < MaxSubmit
               /\ worker_submit(agent_id, text)
               /\ ret' = [op |-> "submit", val |-> TRUE]
    /\ UNCHANGED <<storage_vars, mgr_agents, spec, provider, stop_flag, pc,
                   worker_locals, outcomes, spawn_ret, stop_true, delivered>>

\* AgentManager.submit in a thread of its own, from "w.submit(text)" on: the
\* worker was found in the registry earlier, at "w = self._agents.get(...)",
\* at some time since its spawn. AgentWorker.submit has no condition.
submit_put(a, text) ==
    /\ pc[a] # "none"
    /\ TotalLen(enqueued, AgentIds) < MaxSubmit
    /\ worker_submit(a, text)
    /\ ret' = [op |-> "submit", val |-> TRUE]
    /\ UNCHANGED <<storage_vars, mgr_agents, spec, provider, stop_flag, pc,
                   worker_locals, outcomes, spawn_ret, stop_true, delivered>>

\* run(): the positions between the get of a text and the store of its reply
InFlight == {"got", "ctx", "gen", "reply"}
in_flight(a) == pc[a] \in InFlight

\* AgentWorker.stop: self._stop.set()
worker_stop(a) == stop_flag' = [stop_flag EXCEPT ![a] = TRUE]

\* mutant: the UPDATE of the status is left out
update_agent_status_skipped(agent_id, status) ==
    agents' = agents

\* Storage.update_agent_status
update_agent_status(agent_id, status) ==
    agents' = [agents EXCEPT ![agent_id].status = status]

\* mutant: the worker is looked up with get, its registry entry stays
stop_keeps_entry(agent_id) ==
    /\ IF agent_id \notin mgr_agents
          THEN /\ ret' = [op |-> "stop", val |-> FALSE]
               /\ UNCHANGED <<agents, stop_flag, stop_true>>
          ELSE /\ worker_stop(agent_id)
               /\ update_agent_status(agent_id, "stopped")
               /\ ret' = [op |-> "stop", val |-> TRUE]
               /\ stop_true' = stop_true \cup {agent_id}
    /\ UNCHANGED <<sessions, messages, mgr_agents, spec, provider, inbox, pc,
                   worker_locals, enqueued, outcomes, spawn_ret, delivered>>

\* AgentManager.stop
stop(agent_id) ==
    /\ IF agent_id \notin mgr_agents
          THEN /\ ret' = [op |-> "stop", val |-> FALSE]
               /\ UNCHANGED <<agents, mgr_agents, stop_flag, stop_true>>
          ELSE /\ mgr_agents' = mgr_agents \ {agent_id}
               /\ worker_stop(agent_id)
               /\ update_agent_status(agent_id, "stopped")
               /\ ret' = [op |-> "stop", val |-> TRUE]
               /\ stop_true' = stop_true \cup {agent_id}
    /\ UNCHANGED <<sessions, messages, spec, provider, inbox, pc, worker_locals,
                   enqueued, outcomes, spawn_ret, delivered>>

\* AgentManager.list_agents
list_agents == mgr_agents

Next ==
    \/ \E name \in Names : spawn(name) /\ UNCHANGED <<outside_runtime, stop_at>>
    \/ \E agent_id \in CallIds : \E text \in Texts(agent_id) : submit(agent_id, text) /\ UNCHANGED <<outside_runtime, stop_at>>
    \/ \E agent_id \in CallIds : stop(agent_id) /\ UNCHANGED <<outside_runtime, stop_at>>
    \/ \E a \in AgentIds : run_announce(a) /\ UNCHANGED <<outside_runtime, stop_at>>
    \/ \E a \in AgentIds : run_check_stop(a) /\ UNCHANGED <<outside_runtime, stop_at>>
    \/ \E a \in AgentIds : run_get(a) /\ UNCHANGED <<outside_runtime, stop_at>>
    \/ \E a \in AgentIds : run_get_empty(a) /\ UNCHANGED <<outside_runtime, stop_at>>
    \/ \E a \in AgentIds : run_add_user(a) /\ UNCHANGED <<outside_runtime, stop_at>>
    \/ \E a \in AgentIds : run_build_context(a) /\ UNCHANGED <<outside_runtime, stop_at>>
    \/ \E a \in AgentIds, r \in Replies : generate_return(a, r) /\ UNCHANGED <<outside_runtime, stop_at>>
    \/ \E a \in AgentIds, e \in Errors : generate_raise(a, e) /\ UNCHANGED <<outside_runtime, stop_at>>
    \/ \E a \in AgentIds : run_add_assistant(a) /\ UNCHANGED <<outside_runtime, stop_at>>

\* AgentWorker.run: a step of the thread of worker a; generate returns or
\* raises
run(a) ==
    \/ run_announce(a)
    \/ run_check_stop(a)
    \/ run_get(a)
    \/ run_get_empty(a)
    \/ run_add_user(a)
    \/ run_build_context(a)
    \/ \E r \in Replies : generate_return(a, r)
    \/ \E e \in Errors : generate_raise(a, e)
    \/ run_add_assistant(a)

\* the manager and one worker: spawn is called once
NextFair ==
    \/ \E name \in Names : agents = <<>> /\ spawn(name) /\ UNCHANGED <<outside_runtime, stop_at>>
    \/ \E agent_id \in CallIds : \E text \in Texts(agent_id) : submit(agent_id, text) /\ UNCHANGED <<outside_runtime, stop_at>>
    \/ \E agent_id \in CallIds : stop(agent_id) /\ UNCHANGED <<outside_runtime, stop_at>>
    \/ \E a \in AgentIds : run(a) /\ UNCHANGED <<outside_runtime, stop_at>>

\* the manager called from two threads: a submit may be between its lookup
\* and its put while another call runs
NextRace ==
    \/ Next
    \/ \E a \in AgentIds : \E text \in Texts(a) : submit_put(a, text) /\ UNCHANGED <<outside_runtime, stop_at>>

\* AgentManager.stop, with the note whether it reached its worker during a turn
stop_observed(agent_id) ==
    /\ stop(agent_id)
    /\ stop_at' = [a \in AgentIds |->
                      stop_at[a] \/ (a = agent_id /\ a \in mgr_agents /\ in_flight(a))]

\* the operations of Next, the stop calls observed
NextStop ==
    \/ \E name \in Names : spawn(name) /\ UNCHANGED <<outside_runtime, stop_at>>
    \/ \E agent_id \in CallIds : \E text \in Texts(agent_id) : submit(agent_id, text) /\ UNCHANGED <<outside_runtime, stop_at>>
    \/ \E agent_id \in CallIds : stop_observed(agent_id) /\ UNCHANGED outside_runtime
    \/ \E a \in AgentIds : run_announce(a) /\ UNCHANGED <<outside_runtime, stop_at>>
    \/ \E a \in AgentIds : run_check_stop(a) /\ UNCHANGED <<outside_runtime, stop_at>>
    \/ \E a \in AgentIds : run_get(a) /\ UNCHANGED <<outside_runtime, stop_at>>
    \/ \E a \in AgentIds : run_get_empty(a) /\ UNCHANGED <<outside_runtime, stop_at>>
    \/ \E a \in AgentIds : run_add_user(a) /\ UNCHANGED <<outside_runtime, stop_at>>
    \/ \E a \in AgentIds : run_build_context(a) /\ UNCHANGED <<outside_runtime, stop_at>>
    \/ \E a \in AgentIds, r \in Replies : generate_return(a, r) /\ UNCHANGED <<outside_runtime, stop_at>>
    \/ \E a \in AgentIds, e \in Errors : generate_raise(a, e) /\ UNCHANGED <<outside_runtime, stop_at>>
    \/ \E a \in AgentIds : run_add_assistant(a) /\ UNCHANGED <<outside_runtime, stop_at>>

(* ====================================================================== *)
(* The queue-based streaming provider:                                     *)
(*   _archive-2025-10-25/botmaster/llm_providers.py ClaudeCLIStreamProvider *)
(* A JSON value is [t |-> "none"], [t |-> "str" | "num" | "list" | "dict", *)
(* v |-> ...]; the value of a dict is a function from its keys.  A line of *)
(* the child's output is [ok |-> FALSE] when json.loads rejects it and     *)
(* [ok |-> TRUE, val |-> <JSON value>] otherwise.                          *)
(* ====================================================================== *)
JNone == [t |-> "none"]
JStr(s) == [t |-> "str", v |-> s]
JNum(n) == [t |-> "num", v |-> n]
JList(l) == [t |-> "list", v |-> l]
JDict(d) == [t |-> "dict", v |-> d]
EmptyDict == JDict(<<>>)

IsStr(x, s) == x.t = "str" /\ x.v = s

\* Python truth value of a JSON value ("not content", "a or b")
truthy(x) ==
    CASE x.t = "none" -> FALSE
      [] x.t = "str"  -> x.v # ""
      [] x.t = "num"  -> x.v # 0
      [] x.t = "list" -> x.v # <<>>
      [] x.t = "dict" -> DOMAIN x.v # {}

\* a or b
por(a, b) == IF truthy(a) THEN a ELSE b

\* d.get(k, default), d a dict
dget(d, k, default) == IF k \in DOMAIN d.v THEN d.v[k] ELSE default

\* str(x): a string is itself, anything else is its repr
PyStr(x) == IF x.t = "str" THEN x.v ELSE "<" \o x.t \o ">"

\* "".join(parts)
RECURSIVE join(_)
join(ps) == IF ps = <<>> THEN "" ELSE Head(ps) \o join(Tail(ps))

\* mutant: the parts of a list of blocks are collected last block first
RECURSIVE block_parts_reversed(_)
block_parts_reversed(blocks) ==
    IF blocks = <<>> THEN <<>>
    ELSE LET block == Head(blocks) IN
         block_parts_reversed(Tail(blocks)) \o
         (CASE block.t = "str" -> <<block.v>>
            [] block.t = "dict" /\ IsStr(dget(block, "type", JNone), "text")
                 -> <<PyStr(dget(block, "text", JStr("")))>>
            [] OTHER -> <<>>)

\* _content_to_text: the loop over the blocks of a list
RECURSIVE block_parts(_)
block_parts(blocks) ==
    IF blocks = <<>> THEN <<>>
    ELSE LET block == Head(blocks) IN
         (CASE block.t = "str" -> <<block.v>>
            [] block.t = "dict" /\ IsStr(dget(block, "type", JNone), "text")
                 -> <<PyStr(dget(block, "text", JStr("")))>>
            [] OTHER -> <<>>)
         \o block_parts(Tail(blocks))

\* a _content_to_text that keeps only the first text of a list of blocks
content_to_text_first_block(content) ==
    CASE ~truthy(content) -> ""
      [] content.t = "str" -> content.v
      [] content.t = "list" -> join(Take(block_parts(content.v), 1))
      [] content.t = "dict" /\ IsStr(dget(content, "type", JNone), "text")
           -> PyStr(dget(content, "text", JStr("")))
      [] OTHER -> PyStr(content)

\* ClaudeCLIStreamProvider._content_to_text
content_to_text(content) ==
    CASE ~truthy(content) -> ""
      [] content.t = "str" -> content.v
      [] content.t = "list" -> join(block_parts(content.v))
      [] content.t = "dict" /\ IsStr(dget(content, "type", JNone), "text")
           -> PyStr(dget(content, "text", JStr("")))
      [] OTHER -> PyStr(content)

\* What _reader does with one parsed line: [crash, ready, put, err].
\* crash: an AttributeError leaves the loop and ends the reader thread;
\* ready: _ready_event.set(); put: the texts given to _queue.put;
\* err: the new _last_error (JNone: unchanged).
NoEffect == [crash |-> FALSE, ready |-> FALSE, put |-> <<>>, err |-> JNone]
Crash == [crash |-> TRUE, ready |-> FALSE, put |-> <<>>, err |-> JNone]

reader_handle(msg) ==
    IF msg.t # "dict" THEN Crash
    ELSE
    LET type == dget(msg, "type", JNone)
        message == dget(msg, "message", EmptyDict)
    IN
    IF ~truthy(type) /\ message.t # "dict" THEN Crash
    ELSE
    LET typ == IF truthy(type) THEN type ELSE dget(message, "role", JNone)
        ready == IsStr(typ, "system") /\ IsStr(dget(msg, "subtype", JNone), "init")
    IN
    IF IsStr(typ, "assistant") \/ IsStr(typ, "assistant_message")
    THEN IF message.t # "dict" THEN [Crash EXCEPT !.ready = ready]
         ELSE LET content == por(por(dget(message, "content", JNone),
                                     dget(msg, "content", JNone)), JStr(""))
                  text == content_to_text(content)
              IN [crash |-> FALSE, ready |-> ready,
                  put |-> IF text # "" THEN <<text>> ELSE <<>>, err |-> JNone]
    ELSE IF IsStr(typ, "assistant_delta")
    THEN LET d1 == dget(msg, "delta", JNone) IN
         IF ~truthy(d1) /\ message.t # "dict" THEN [Crash EXCEPT !.ready = ready]
         ELSE LET delta == por(por(d1, IF truthy(d1) THEN JNone
                                       ELSE dget(message, "delta", JNone)), EmptyDict)
              IN IF delta.t # "dict" THEN [Crash EXCEPT !.ready = ready]
                 ELSE LET text == content_to_text(dget(delta, "content", JNone))
                      IN [crash |-> FALSE, ready |-> ready,
                          put |-> IF text # "" THEN <<text>> ELSE <<>>, err |-> JNone]
    ELSE IF IsStr(typ, "error")
    THEN LET e == PyStr(por(dget(msg, "error", JNone), msg))
         IN [crash |-> FALSE, ready |-> ready,
             put |-> <<"[claude-cli error] " \o e>>, err |-> JStr(e)]
    ELSE [NoEffect EXCEPT !.ready = ready]

(* ------------------- streaming provider: the model -------------------- *)
\* number of generate calls explored
MaxCalls == 2
\* number of lines (stdout and stderr together) the children emit
MaxEmit == 2

\* One tick of the clocks is 0.1 s.
\* __init__: response_timeout (default 120.0), a small deadline is explored
response_timeout == 2
\* generate(): gather_deadline = time.time() + 0.5
GatherWindow == 5
\* generate(): self._queue.get(timeout=0.1)
GatherPoll == 1

\* __init__: self._session_id
session_id == "session-1"
\* __init__: instructions (None or a text)
Instructions == {"Be brief."}
\* generate(): the messages argument
CallMessages ==
    { <<[role |-> "user", content |-> "Hi"]>>,
      <<[role |-> "user", content |-> "old"],
        [role |-> "assistant", content |-> "re"],
        [role |-> "user", content |-> "Hi"]>> }

\* lines of the child's standard output
EvInit == [ok |-> TRUE, val |-> JDict([type |-> JStr("system"), subtype |-> JStr("init")])]
EvAssistantStr ==
    [ok |-> TRUE, val |-> JDict([type |-> JStr("assistant"),
        message |-> JDict([role |-> JStr("assistant"), content |-> JStr("Hallo")])])]
EvAssistantBlocks ==
    [ok |-> TRUE, val |-> JDict([type |-> JStr("assistant"),
        message |-> JDict([role |-> JStr("assistant"),
            content |-> JList(<< JDict([type |-> JStr("text"), text |-> JStr("Hal")]),
                                 JDict([type |-> JStr("tool_use"), name |-> JStr("ls")]),
                                 JDict([type |-> JStr("text"), text |-> JStr("lo")]) >>)])])]
EvAssistantRole ==
    [ok |-> TRUE, val |-> JDict([message |->
        JDict([role |-> JStr("assistant"),
               content |-> JDict([type |-> JStr("text"), text |-> JStr("Moin")])])])]
EvDelta ==
    [ok |-> TRUE, val |-> JDict([type |-> JStr("assistant_delta"),
        delta |-> JDict([content |-> JStr("He")])])]
EvMalformed == [ok |-> FALSE]
\* valid JSON that is not an object
EvNumber == [ok |-> TRUE, val |-> JNum(42)]
\* an object of a type the reader does not know
EvResult == [ok |-> TRUE, val |-> JDict([type |-> JStr("result")])]

\* the assistant full-message events the child may emit, each with its text
AssistantFull ==
    { [line |-> EvAssistantStr, text |-> "Hallo"],
      [line |-> EvAssistantBlocks, text |-> "Hallo"],
      [line |-> EvAssistantRole, text |-> "Moin"] }

StdoutLines ==
    {EvInit, EvDelta, EvMalformed} \cup {e.line : e \in AssistantFull}
\* assistant and delta events whose extracted text is empty
EmptyTextLines ==
    { [ok |-> TRUE, val |-> JDict([type |-> JStr("assistant"),
          message |-> JDict([role |-> JStr("assistant"), content |-> JStr("")])])],
      [ok |-> TRUE, val |-> JDict([type |-> JStr("assistant"),
          message |-> JDict([role |-> JStr("assistant"),
              content |-> JList(<< JDict([type |-> JStr("text"), text |-> JStr("")]),
                                   JDict([type |-> JStr("tool_use"), name |-> JStr("ls")]) >>)])])],
      [ok |-> TRUE, val |-> JDict([type |-> JStr("assistant_delta"),
          delta |-> JDict([content |-> JDict([type |-> JStr("text"), text |-> JStr("")])])])] }
\* an error event
EvError ==
    [ok |-> TRUE, val |-> JDict([type |-> JStr("error"), error |-> JStr("overloaded")])]
\* the lines of a child that reports an error or replies
ErrorLines == {EvError, EvAssistantStr}
\* the lines that carry nothing for the reader
SkippedLines == {EvMalformed, EvNumber, EvResult}
StderrLines == {"warn"}
ExitCodes == {0, 1}

StreamInit(instr) ==
    /\ instructions = instr
    /\ proc = "none"
    /\ returncode = 0
    /\ launch_session = ""
    /\ started = FALSE
    /\ first_message_sent = FALSE
    /\ last_error = ""
    /\ ready_event = FALSE
    /\ queue = <<>>
    /\ stdin = <<>>
    /\ stdout_pipe = <<>>
    /\ readers = 0
    /\ ereaders = 0
    /\ gpc = "idle"
    /\ payload = ""
    /\ parts = <<>>
    /\ elapsed = 0
    /\ gather_elapsed = 0
    /\ get_elapsed = 0
    /\ result = ""
    /\ calls = 0
    /\ all_out = <<>>
    /\ emitted = 0

RECURSIVE last_user_content(_)
\* generate(): "for m in reversed(messages)": the content of the last user message
last_user_content(ms) ==
    IF ms = <<>> THEN ""
    ELSE IF ms[Len(ms)].role = "user" THEN ms[Len(ms)].content
    ELSE last_user_content(SubSeq(ms, 1, Len(ms) - 1))

\* mutant: the instructions are put in front of every user turn
build_content_every_call(user_content) ==
    IF instructions # ""
       THEN instructions \o "\n\n---\n\nUser message:\n" \o user_content
       ELSE user_content

\* generate(): content, with the instructions in front on the first message
build_content(user_content) ==
    IF instructions # "" /\ ~first_message_sent
       THEN instructions \o "\n\n---\n\nUser message:\n" \o user_content
       ELSE user_content

\* mutant: the outbound object carries no session id
outbound_untagged(content) ==
    [type |-> "user", message |-> [role |-> "user", content |-> content],
     session_id |-> ""]

\* generate(): the outbound object
outbound(content) ==
    [type |-> "user", message |-> [role |-> "user", content |-> content],
     session_id |-> session_id]

\* generate(): the value returned after the wait, ps the parts gathered
generate_result(ps) ==
    IF ps # <<>> THEN join(ps)
    ELSE IF last_error # "" THEN "[claude-cli stderr] " \o last_error
    ELSE IF proc = "exited" THEN "[claude-cli exited " \o ToString(returncode) \o "]"
    ELSE "[claude-cli timeout]"

\* generate(): return r; the locals of the call are gone. The time since
\* the first chunk of the call goes on as history.
gen_return(r) ==
    /\ result' = r
    /\ calls' = calls + 1
    /\ gpc' = "idle"
    /\ payload' = ""
    /\ parts' = <<>>
    /\ elapsed' = 0
    /\ get_elapsed' = 0
    /\ UNCHANGED gather_elapsed

\* history: when a call begins, what was emitted for earlier calls is
\* forgotten, except the n lines that are still unread in the pipe
carry(out, n) ==
    [i \in 1..n |-> [out[Len(out) - n + i] EXCEPT !.written = FALSE, !.intime = FALSE,
                                                     !.window = FALSE]]

\* mutant: _ensure_started returns for any child that was ever started
gen_call_no_restart(ms) ==
    /\ gpc = "idle"
    /\ calls < MaxCalls
    /\ IF started
          THEN /\ all_out' = carry(all_out, Len(stdout_pipe))
               /\ UNCHANGED <<proc, returncode, launch_session, started, stdin,
                              stdout_pipe, readers, ereaders>>
          ELSE /\ all_out' = <<>>
               /\ proc' = "running"
               /\ returncode' = 0
               /\ launch_session' = session_id
               /\ started' = TRUE
               /\ stdin' = <<>>
               /\ stdout_pipe' = <<>>
               /\ readers' = readers + 1
               /\ ereaders' = ereaders + 1
    /\ payload' = build_content(last_user_content(ms))
    /\ first_message_sent' = (first_message_sent \/ instructions # "")
    /\ gpc' = "write"
    /\ result' = ""
    /\ gather_elapsed' = 0
    /\ UNCHANGED <<instructions, last_error, ready_event, queue, parts, calls,
                   elapsed, get_elapsed, emitted>>

\* generate(): _ensure_started(), then the content of the user turn is built
gen_call(ms) ==
    /\ gpc = "idle"
    /\ calls < MaxCalls
    /\ IF started /\ proc = "running"
          THEN /\ all_out' = carry(all_out, Len(stdout_pipe))
               /\ UNCHANGED <<proc, returncode, launch_session, started, stdin, stdout_pipe,
                              readers, ereaders>>
          ELSE /\ all_out' = <<>>
               /\ proc' = "running"
               /\ returncode' = 0
               /\ launch_session' = session_id
               /\ started' = TRUE
               /\ stdin' = <<>>
               /\ stdout_pipe' = <<>>
               /\ readers' = readers + 1
               /\ ereaders' = ereaders + 1
    /\ payload' = build_content(last_user_content(ms))
    /\ first_message_sent' = (first_message_sent \/ instructions # "")
    /\ gpc' = "write"
    /\ result' = ""
    /\ gather_elapsed' = 0
    /\ UNCHANGED <<instructions, last_error, ready_event, queue, parts, calls,
                   elapsed, get_elapsed, emitted>>

\* mutant: a call whose child has not signalled readiness gives up instead
\* of writing
gen_write_waits_ready ==
    /\ gpc = "write"
    /\ queue' = <<>>
    /\ IF proc = "running" /\ ready_event
          THEN /\ stdin' = Append(stdin, outbound(payload))
               /\ gpc' = "wait"
               /\ UNCHANGED <<payload, parts, result, calls, clock_vars>>
          ELSE /\ gen_return(IF proc = "running" THEN "[claude-cli timeout]"
                             ELSE "[claude-cli write error] Broken pipe")
               /\ UNCHANGED stdin
    /\ UNCHANGED <<instructions, started, first_message_sent, last_error, ready_event,
                   proc, returncode, launch_session, stdout_pipe, reader_vars,
                   history_out>>

\* generate(): "with self._lock": the queue is emptied, then the line is
\* written; a child that has exited makes the write raise and the call
\* returns the write error
gen_write ==
    /\ gpc = "write"
    /\ queue' = <<>>
    /\ IF proc = "running"
          THEN /\ stdin' = Append(stdin, outbound(payload))
               /\ gpc' = "wait"
               /\ UNCHANGED <<payload, parts, result, calls, clock_vars>>
          ELSE /\ gen_return("[claude-cli write error] Broken pipe")
               /\ UNCHANGED stdin
    /\ UNCHANGED <<instructions, started, first_message_sent, last_error, ready_event,
                   proc, returncode, launch_session, stdout_pipe, reader_vars, history_out>>

\* A reader thread whose readline can return (a line is in the pipe, or the
\* child has exited) is faster than the 0.1 s polls and than the child's next
\* output: it takes its step before the clocks move, before the child acts
\* again and before the caller's get returns. Only the start of a call and
\* its locked block can run while a line is still in the pipe.
reader_can_step ==
    \/ readers > 0 /\ (stdout_pipe # <<>> \/ proc = "exited")
    \/ ereaders > 0 /\ proc = "exited"

\* generate(): the first chunk arrives, "chunk = self._queue.get(...)"
gen_get_chunk ==
    /\ ~reader_can_step
    /\ gpc = "wait"
    /\ queue # <<>>
    /\ parts' = Append(parts, Head(queue))
    /\ queue' = Tail(queue)
    /\ elapsed' = 0
    /\ gather_elapsed' = 0
    /\ get_elapsed' = 0
    /\ gpc' = "gather"
    /\ UNCHANGED <<instructions, started, first_message_sent, last_error, ready_event,
                   child_vars, reader_vars, payload, result, calls, history_out>>

\* generate(): "while time.time() < deadline" ends with no chunk
gen_deadline ==
    /\ ~reader_can_step
    /\ gpc = "wait"
    /\ elapsed >= response_timeout
    /\ gen_return(generate_result(parts))
    /\ UNCHANGED <<provider_fields, child_vars, reader_vars, history_out>>

\* generate(): "more = self._queue.get(timeout=0.1)" returns a chunk; the
\* gather loop goes on while time.time() < gather_deadline
gen_gather_more ==
    /\ ~reader_can_step
    /\ gpc = "gather"
    /\ queue # <<>>
    /\ queue' = Tail(queue)
    /\ IF gather_elapsed < GatherWindow
          THEN /\ parts' = Append(parts, Head(queue))
               /\ get_elapsed' = 0
               /\ UNCHANGED <<gpc, payload, result, calls, elapsed, gather_elapsed>>
          ELSE gen_return(generate_result(Append(parts, Head(queue))))
    /\ UNCHANGED <<instructions, started, first_message_sent, last_error, ready_event,
                   child_vars, reader_vars, history_out>>

\* generate(): the gather get times out (queue.Empty: break)
gen_gather_empty ==
    /\ ~reader_can_step
    /\ gpc = "gather"
    /\ queue = <<>>
    /\ get_elapsed >= GatherPoll
    /\ gen_return(generate_result(parts))
    /\ UNCHANGED <<provider_fields, child_vars, reader_vars, history_out>>

\* mutant: an error event is recorded as last error and not enqueued
reader_line_error_not_enqueued ==
    /\ readers > 0
    /\ stdout_pipe # <<>>
    /\ stdout_pipe' = Tail(stdout_pipe)
    /\ LET line == Head(stdout_pipe)
           eff == IF line.ok THEN reader_handle(line.val) ELSE NoEffect
       IN /\ readers' = IF eff.crash THEN readers - 1 ELSE readers
          /\ ready_event' = (ready_event \/ eff.ready)
          /\ queue' = IF eff.err.t = "str" THEN queue ELSE queue \o eff.put
          /\ last_error' = IF eff.err.t = "str" THEN eff.err.v ELSE last_error
    /\ UNCHANGED <<instructions, started, first_message_sent, proc, returncode,
                   launch_session, stdin, ereaders, call_vars, clock_vars, history_out>>

\* mutant: an assistant or delta event is enqueued whatever its text
reader_line_enqueues_empty ==
    /\ readers > 0
    /\ stdout_pipe # <<>>
    /\ stdout_pipe' = Tail(stdout_pipe)
    /\ LET line == Head(stdout_pipe)
           eff == IF line.ok THEN reader_handle(line.val) ELSE NoEffect
       IN /\ readers' = IF eff.crash THEN readers - 1 ELSE readers
          /\ ready_event' = (ready_event \/ eff.ready)
          /\ queue' = queue \o (IF line.ok /\ ~eff.crash /\ ~eff.ready /\ eff.put = <<>>
                                THEN <<"">> ELSE eff.put)
          /\ last_error' = IF eff.err.t = "str" THEN eff.err.v ELSE last_error
    /\ UNCHANGED <<instructions, started, first_message_sent, proc, returncode, launch_session,
                   stdin, ereaders, call_vars, clock_vars, history_out>>

\* _reader: one round of the loop with a line: readline, json.loads and the
\* dispatch on the type of the line. Every _reader thread reads self._proc,
\* the current child, whichever child it was started with.
reader_line ==
    /\ readers > 0
    /\ stdout_pipe # <<>>
    /\ stdout_pipe' = Tail(stdout_pipe)
    /\ LET line == Head(stdout_pipe)
           eff == IF line.ok THEN reader_handle(line.val) ELSE NoEffect
       IN /\ readers' = IF eff.crash THEN readers - 1 ELSE readers
          /\ ready_event' = (ready_event \/ eff.ready)
          /\ queue' = queue \o eff.put
          /\ last_error' = IF eff.err.t = "str" THEN eff.err.v ELSE last_error
    /\ UNCHANGED <<instructions, started, first_message_sent, proc, returncode, launch_session,
                   stdin, ereaders, call_vars, clock_vars, history_out>>

\* _reader: end of file and "self._proc.poll() is not None": break
reader_eof ==
    /\ readers > 0
    /\ stdout_pipe = <<>>
    /\ proc = "exited"
    /\ readers' = readers - 1
    /\ UNCHANGED <<provider_fields, child_vars, ereaders, call_vars, clock_vars,
                   history_out>>

\* _stderr_reader: end of file and the process has exited: break
stderr_eof ==
    /\ ereaders > 0
    /\ proc = "exited"
    /\ ereaders' = ereaders - 1
    /\ UNCHANGED <<provider_fields, child_vars, readers, call_vars, clock_vars,
                   history_out>>

\* history: a line the child emits, with whether the running call has
\* written its user turn, whether its deadline is still ahead, and whether
\* the 0.5 s that began with the first chunk of the call are still running
emit_tag(line) ==
    [line |-> line,
     written |-> gpc \in {"wait", "gather"},
     intime |-> (gpc = "wait" /\ elapsed < response_timeout),
     window |-> (/\ gpc = "gather" \/ (gpc = "idle" /\ gather_elapsed > 0)
                 /\ gather_elapsed < GatherWindow)]

\* the child writes a line to its standard output
child_emit(line) ==
    /\ ~reader_can_step
    /\ calls < MaxCalls
    /\ proc = "running"
    /\ emitted < MaxEmit
    /\ stdout_pipe' = Append(stdout_pipe, line)
    /\ all_out' = Append(all_out, emit_tag(line))
    /\ emitted' = emitted + 1
    /\ UNCHANGED <<provider_fields, proc, returncode, launch_session, stdin, reader_vars,
                   call_vars, clock_vars>>

\* _stderr_reader: readline returns a line the child wrote to its standard
\* error, and the line becomes _last_error
stderr_line(text) ==
    /\ ~reader_can_step
    /\ calls < MaxCalls
    /\ ereaders > 0
    /\ proc = "running"
    /\ emitted < MaxEmit
    /\ last_error' = text
    /\ all_out' = Append(all_out, emit_tag([ok |-> FALSE, stderr |-> text]))
    /\ emitted' = emitted + 1
    /\ UNCHANGED <<instructions, started, first_message_sent, ready_event, queue,
                   child_vars, reader_vars, call_vars, clock_vars>>

\* the child exits
child_exit(code) ==
    /\ ~reader_can_step
    /\ calls < MaxCalls
    /\ proc = "running"
    /\ proc' = "exited"
    /\ returncode' = code
    /\ UNCHANGED launch_session
    /\ UNCHANGED <<provider_fields, stdin, stdout_pipe, reader_vars, call_vars,
                   clock_vars, history_out>>

\* time passes while the caller waits on the empty queue, and after a
\* call for as long as the 0.5 s since its first chunk are not over
tick ==
    /\ ~reader_can_step
    /\ \/ gpc = "wait" /\ queue = <<>> /\ elapsed < response_timeout
       \/ gpc = "gather" /\ queue = <<>> /\ get_elapsed < GatherPoll
       \/ /\ gpc = "idle"
          /\ calls < MaxCalls
          /\ gather_elapsed > 0
          /\ gather_elapsed < GatherWindow
    /\ elapsed' = IF gpc = "wait" THEN elapsed + 1 ELSE elapsed
    /\ gather_elapsed' = IF gpc = "wait" THEN gather_elapsed ELSE gather_elapsed + 1
    /\ get_elapsed' = IF gpc = "gather" THEN get_elapsed + 1 ELSE get_elapsed
    /\ UNCHANGED <<provider_fields, child_vars, reader_vars, call_vars, history_out>>

NextStream ==
    \/ \E ms \in CallMessages : gen_call(ms) /\ UNCHANGED outside_stream
    \/ gen_write /\ UNCHANGED outside_stream
    \/ gen_get_chunk /\ UNCHANGED outside_stream
    \/ gen_deadline /\ UNCHANGED outside_stream
    \/ gen_gather_more /\ UNCHANGED outside_stream
    \/ gen_gather_empty /\ UNCHANGED outside_stream
    \/ reader_line /\ UNCHANGED outside_stream
    \/ reader_eof /\ UNCHANGED outside_stream
    \/ \E text \in StderrLines : stderr_line(text) /\ UNCHANGED outside_stream
    \/ stderr_eof /\ UNCHANGED outside_stream
    \/ \E line \in StdoutLines : child_emit(line) /\ UNCHANGED outside_stream
    \/ \E code \in ExitCodes : child_exit(code) /\ UNCHANGED outside_stream
    \/ tick /\ UNCHANGED outside_stream

\* the same provider, with a child that emits lines of no recognized shape
\* and assistant messages
NextReader ==
    \/ \E ms \in CallMessages : gen_call(ms) /\ UNCHANGED outside_stream
    \/ gen_write /\ UNCHANGED outside_stream
    \/ gen_get_chunk /\ UNCHANGED outside_stream
    \/ gen_deadline /\ UNCHANGED outside_stream
    \/ gen_gather_more /\ UNCHANGED outside_stream
    \/ gen_gather_empty /\ UNCHANGED outside_stream
    \/ reader_line /\ UNCHANGED outside_stream
    \/ reader_eof /\ UNCHANGED outside_stream
    \/ \E text \in StderrLines : stderr_line(text) /\ UNCHANGED outside_stream
    \/ stderr_eof /\ UNCHANGED outside_stream
    \/ \E line \in SkippedLines \cup {EvAssistantStr} :
           child_emit(line) /\ UNCHANGED outside_stream
    \/ \E code \in ExitCodes : child_exit(code) /\ UNCHANGED outside_stream
    \/ tick /\ UNCHANGED outside_stream

\* the same provider, with a child that emits error events and assistant
\* messages
NextError ==
    \/ \E ms \in CallMessages : gen_call(ms) /\ UNCHANGED outside_stream
    \/ gen_write /\ UNCHANGED outside_stream
    \/ gen_get_chunk /\ UNCHANGED outside_stream
    \/ gen_deadline /\ UNCHANGED outside_stream
    \/ gen_gather_more /\ UNCHANGED outside_stream
    \/ gen_gather_empty /\ UNCHANGED outside_stream
    \/ reader_line /\ UNCHANGED outside_stream
    \/ reader_eof /\ UNCHANGED outside_stream
    \/ \E text \in StderrLines : stderr_line(text) /\ UNCHANGED outside_stream
    \/ stderr_eof /\ UNCHANGED outside_stream
    \/ \E line \in ErrorLines :
           child_emit(line) /\ UNCHANGED outside_stream
    \/ \E code \in ExitCodes : child_exit(code) /\ UNCHANGED outside_stream
    \/ tick /\ UNCHANGED outside_stream

(* ====================================================================== *)
(* The live streaming provider: botmaster/llm_providers.py                 *)
(* ClaudeCLIStreamProvider. It has no reader threads and no queue: the     *)
(* caller reads the child's standard output itself. It uses the variables  *)
(* of the provider above; elapsed is time.time() - start, one tick is 1 s. *)
(* ====================================================================== *)
\* generate(): timeout = 90.0
LiveTimeout == 90
\* generate(): "if time.time() - start > 2.0: break"
LiveGather == 2

\* the lines the child of the live provider emits
LiveLines == {EvAssistantStr, EvAssistantBlocks, EvMalformed}

\* generate(): typ in ("assistant",)
live_is_assistant(line) ==
    /\ line.ok
    /\ LET type == dget(line.val, "type", JNone)
           typ == IF truthy(type) THEN type
                  ELSE dget(dget(line.val, "message", EmptyDict), "role", JNone)
       IN IsStr(typ, "assistant")

RECURSIVE live_block_texts(_)
\* generate(): the loop over the blocks of a list content
live_block_texts(blocks) ==
    IF blocks = <<>> THEN <<>>
    ELSE LET block == Head(blocks) IN
         (IF block.t = "dict" /\ IsStr(dget(block, "type", JNone), "text")
             THEN <<PyStr(dget(block, "text", JStr("")))>> ELSE <<>>)
         \o live_block_texts(Tail(blocks))

\* generate(): what an assistant line adds to text_parts
live_texts(line) ==
    LET content == por(por(dget(dget(line.val, "message", EmptyDict), "content", JNone),
                           dget(line.val, "content", JNone)), JStr(""))
    IN CASE content.t = "list" -> live_block_texts(content.v)
         [] content.t = "str" -> <<content.v>>
         [] OTHER -> <<>>

\* generate(): _ensure_started(), the user turn is built and written
live_call(ms) ==
    /\ gpc = "idle"
    /\ calls < MaxCalls
    /\ IF started /\ proc = "running"
          THEN /\ all_out' = carry(all_out, Len(stdout_pipe))
               /\ stdin' = Append(stdin, outbound(build_content(last_user_content(ms))))
               /\ UNCHANGED <<proc, returncode, launch_session, started, stdout_pipe>>
          ELSE /\ all_out' = <<>>
               /\ proc' = "running"
               /\ returncode' = 0
               /\ launch_session' = session_id
               /\ started' = TRUE
               /\ stdin' = <<outbound(build_content(last_user_content(ms)))>>
               /\ stdout_pipe' = <<>>
    /\ first_message_sent' = (first_message_sent \/ instructions # "")
    /\ gpc' = "read"
    /\ result' = ""
    /\ parts' = <<>>
    /\ elapsed' = 0
    /\ UNCHANGED <<instructions, last_error, ready_event, queue, reader_vars, payload,
                   calls, gather_elapsed, get_elapsed, emitted>>

\* generate(): "while time.time() - start < timeout", and the return after it
live_check ==
    /\ gpc = "read"
    /\ IF elapsed < LiveTimeout
          THEN /\ gpc' = "readline"
               /\ UNCHANGED <<payload, parts, result, calls, clock_vars>>
          ELSE gen_return(join(parts))
    /\ UNCHANGED <<provider_fields, child_vars, reader_vars, history_out>>

\* generate(): "line = self._proc.stdout.readline()" returns a line, which
\* is parsed; an assistant line after the first 2 s ends the loop
live_readline ==
    /\ gpc = "readline"
    /\ stdout_pipe # <<>>
    /\ stdout_pipe' = Tail(stdout_pipe)
    /\ LET line == Head(stdout_pipe)
           text_parts == IF live_is_assistant(line) THEN parts \o live_texts(line)
                         ELSE parts
       IN IF live_is_assistant(line) /\ elapsed > LiveGather
             THEN gen_return(join(text_parts))
             ELSE /\ parts' = text_parts
                  /\ gpc' = "read"
                  /\ UNCHANGED <<payload, result, calls, clock_vars>>
    /\ UNCHANGED <<provider_fields, proc, returncode, launch_session, stdin, reader_vars, history_out>>

\* generate(): readline returns nothing at the end of the output of a child
\* that has exited: time.sleep(0.05); continue
live_eof ==
    /\ gpc = "readline"
    /\ stdout_pipe = <<>>
    /\ proc = "exited"
    /\ gpc' = "read"
    /\ UNCHANGED <<provider_fields, child_vars, reader_vars, payload, parts, result,
                   calls, clock_vars, history_out>>

\* time passes during a call; past the timeout the clock makes no difference
live_tick ==
    /\ gpc \in {"read", "readline"}
    /\ elapsed < LiveTimeout
    /\ elapsed' = elapsed + 1
    /\ UNCHANGED <<provider_fields, child_vars, reader_vars, call_vars, gather_elapsed,
                   get_elapsed, history_out>>

\* the steps of the calling thread
live_caller == live_check \/ live_readline \/ live_eof

NextLive ==
    \/ \E ms \in CallMessages : live_call(ms) /\ UNCHANGED outside_stream
    \/ live_check /\ UNCHANGED outside_stream
    \/ live_readline /\ UNCHANGED outside_stream
    \/ live_eof /\ UNCHANGED outside_stream
    \/ live_tick /\ UNCHANGED outside_stream
    \/ \E line \in LiveLines : child_emit(line) /\ UNCHANGED outside_stream
    \/ \E code \in ExitCodes : child_exit(code) /\ UNCHANGED outside_stream

\* the streaming provider and a child whose events may carry no text
NextEmpty ==
    \/ \E ms \in CallMessages : gen_call(ms) /\ UNCHANGED outside_stream
    \/ gen_write /\ UNCHANGED outside_stream
    \/ gen_get_chunk /\ UNCHANGED outside_stream
    \/ gen_deadline /\ UNCHANGED outside_stream
    \/ gen_gather_more /\ UNCHANGED outside_stream
    \/ gen_gather_empty /\ UNCHANGED outside_stream
    \/ reader_line /\ UNCHANGED outside_stream
    \/ reader_eof /\ UNCHANGED outside_stream
    \/ \E text \in StderrLines : stderr_line(text) /\ UNCHANGED outside_stream
    \/ stderr_eof /\ UNCHANGED outside_stream
    \/ \E line \in EmptyTextLines \cup {EvAssistantStr} :
           child_emit(line) /\ UNCHANGED outside_stream
    \/ \E code \in ExitCodes : child_exit(code) /\ UNCHANGED outside_stream
    \/ tick /\ UNCHANGED outside_stream

(* ====================================================================== *)
(* Overlapping generate calls on one queue-based provider: the block       *)
(* "with self._lock" of generate, entered by several calling threads.      *)
(* ====================================================================== *)
\* number of threads that call generate on the provider
MaxCallers == 2
\* number of generate calls explored
MaxLockCalls == 3
Callers == 1..MaxCallers

\* generate(): the positions inside "with self._lock"
Locked == {"drain", "write", "flush", "release"}

LockInit ==
    /\ lock = 0
    /\ lpc = [c \in Callers |-> "idle"]
    /\ lcalls = 0
    /\ my_call = [c \in Callers |-> 0]
    /\ oplog = <<>>

\* generate(): the call begins and comes to "with self._lock"
lock_begin(c) ==
    /\ lpc[c] = "idle"
    /\ lcalls < MaxLockCalls
    /\ lcalls' = lcalls + 1
    /\ my_call' = [my_call EXCEPT ![c] = lcalls + 1]
    /\ lpc' = [lpc EXCEPT ![c] = "acquire"]
    /\ UNCHANGED <<lock, oplog>>

\* mutant: the block is entered whoever holds the lock
lock_acquire_unguarded(c) ==
    /\ lpc[c] = "acquire"
    /\ lock' = c
    /\ lpc' = [lpc EXCEPT ![c] = "drain"]
    /\ UNCHANGED <<lcalls, my_call, oplog>>

\* generate(): "with self._lock" is entered when the lock is free
lock_acquire(c) ==
    /\ lpc[c] = "acquire"
    /\ lock = 0
    /\ lock' = c
    /\ lpc' = [lpc EXCEPT ![c] = "drain"]
    /\ UNCHANGED <<lcalls, my_call, oplog>>

\* history: an operation of the call of thread c
logged(c, op) == Append(oplog, [caller |-> c, call |-> my_call[c], op |-> op])

\* generate(): the queue is emptied
lock_drain(c) ==
    /\ lpc[c] = "drain"
    /\ oplog' = logged(c, "drain")
    /\ lpc' = [lpc EXCEPT ![c] = "write"]
    /\ UNCHANGED <<lock, lcalls, my_call>>

\* generate(): self._proc.stdin.write(payload)
lock_write(c) ==
    /\ lpc[c] = "write"
    /\ oplog' = logged(c, "write")
    /\ lpc' = [lpc EXCEPT ![c] = "flush"]
    /\ UNCHANGED <<lock, lcalls, my_call>>

\* generate(): self._proc.stdin.flush()
lock_flush(c) ==
    /\ lpc[c] = "flush"
    /\ oplog' = logged(c, "flush")
    /\ lpc' = [lpc EXCEPT ![c] = "release"]
    /\ UNCHANGED <<lock, lcalls, my_call>>

\* generate(): the write or the flush raises; the return inside the block
\* gives the lock back and ends the call
lock_write_error(c) ==
    /\ lpc[c] \in {"write", "flush"}
    /\ lock' = IF lock = c THEN 0 ELSE lock
    /\ lpc' = [lpc EXCEPT ![c] = "idle"]
    /\ UNCHANGED <<lcalls, my_call, oplog>>

\* generate(): the end of the block gives the lock back; the call waits
lock_release(c) ==
    /\ lpc[c] = "release"
    /\ lock' = IF lock = c THEN 0 ELSE lock
    /\ lpc' = [lpc EXCEPT ![c] = "wait"]
    /\ UNCHANGED <<lcalls, my_call, oplog>>

\* generate(): the call returns
lock_return(c) ==
    /\ lpc[c] = "wait"
    /\ lpc' = [lpc EXCEPT ![c] = "idle"]
    /\ UNCHANGED <<lock, lcalls, my_call, oplog>>

NextLock ==
    \/ \E c \in Callers : lock_begin(c) /\ UNCHANGED <<runtime_vars, stream_vars, text_vars, spawner_vars, telegram_vars>>
    \/ \E c \in Callers : lock_acquire(c) /\ UNCHANGED <<runtime_vars, stream_vars, text_vars, spawner_vars, telegram_vars>>
    \/ \E c \in Callers : lock_drain(c) /\ UNCHANGED <<runtime_vars, stream_vars, text_vars, spawner_vars, telegram_vars>>
    \/ \E c \in Callers : lock_write(c) /\ UNCHANGED <<runtime_vars, stream_vars, text_vars, spawner_vars, telegram_vars>>
    \/ \E c \in Callers : lock_flush(c) /\ UNCHANGED <<runtime_vars, stream_vars, text_vars, spawner_vars, telegram_vars>>
    \/ \E c \in Callers : lock_write_error(c) /\ UNCHANGED <<runtime_vars, stream_vars, text_vars, spawner_vars, telegram_vars>>
    \/ \E c \in Callers : lock_release(c) /\ UNCHANGED <<runtime_vars, stream_vars, text_vars, spawner_vars, telegram_vars>>
    \/ \E c \in Callers : lock_return(c) /\ UNCHANGED <<runtime_vars, stream_vars, text_vars, spawner_vars, telegram_vars>>

(* ====================================================================== *)
(* _content_to_text applied to a text s as a plain string, as a single     *)
(* text block and as a one-element list, and to a list of text blocks.     *)
(* ====================================================================== *)
\* number of blocks in a list
MaxBlocks == 3
BlockTexts == {"", "Hal", "lo", "Moin"}
Shapes == {"str", "block", "list1", "list"}

\* a content block of type text
TextBlock(text) == JDict([type |-> JStr("text"), text |-> JStr(text)])

\* the content of a shape
shaped(shape) ==
    CASE shape = "str"   -> JStr(ct_s)
      [] shape = "block" -> TextBlock(ct_s)
      [] shape = "list1" -> JList(<<TextBlock(ct_s)>>)
      [] shape = "list"  -> JList([i \in 1..Len(ct_blocks) |-> TextBlock(ct_blocks[i])])

TextInit(s, blocks) ==
    /\ ct_s = s
    /\ ct_blocks = blocks
    /\ ct_out = [shape \in Shapes |-> <<>>]

\* self._content_to_text(content) for the content of one shape
extract_text(shape) ==
    /\ ct_out[shape] = <<>>
    /\ ct_out' = [ct_out EXCEPT ![shape] = <<content_to_text(shaped(shape))>>]
    /\ UNCHANGED <<ct_s, ct_blocks>>

NextText ==
    \E shape \in Shapes :
        extract_text(shape) /\ UNCHANGED <<runtime_vars, stream_vars, lock_vars, spawner_vars, telegram_vars>>

(* ====================================================================== *)
(* AgentSpawner (agent_spawner.py): one-shot agent processes, the dict of  *)
(* active sessions and the rows of the storage table agent_sessions.       *)
(* Session ids are numbered in the order spawn_agent generates them (the   *)
(* uuid part makes them distinct); the process started for session id n    *)
(* is process n.  Storage calls succeed or raise.                          *)
(* ====================================================================== *)
\* number of spawn_agent calls explored
MaxSessions == 2
SpawnerIds == 1..MaxSessions

\* dict.get(session_id) when the key is missing
NoSession == [session_id |-> 0, process |-> 0]
NoCall == [op |-> "none", sid |-> 0, raised |-> FALSE]

SpawnerInit ==
    /\ active_sessions = <<>>
    /\ session_count = 0
    /\ child = [sid \in SpawnerIds |-> "none"]
    /\ exit_code = [sid \in SpawnerIds |-> JNone]
    /\ returncode_of = [sid \in SpawnerIds |-> JNone]
    /\ agent_sessions = <<>>
    /\ sp_call = NoCall

\* AgentSpawner.get_session
get_session(sid) ==
    IF sid \in DOMAIN active_sessions THEN active_sessions[sid] ELSE NoSession

\* Popen.poll(): the return code, looked up when the process has exited
poll(sid) == IF child[sid] = "exited" THEN exit_code[sid] ELSE returncode_of[sid]

\* AgentSession.is_running
is_running(sid) == poll(sid) = JNone

\* AgentSession.get_status
get_status(sid) ==
    IF is_running(sid) THEN "running"
    ELSE IF poll(sid) = JNum(0) THEN "completed"
    ELSE "failed"

\* dict with one more key / without a key
with_key(d, k, v) == [x \in DOMAIN d \cup {k} |-> IF x = k THEN v ELSE d[x]]
without_keys(d, ks) == [x \in DOMAIN d \ ks |-> d[x]]

\* MariaDBStorage.update_session(session_id, status, exit_code): the row as the
\* UPDATE leaves it; no row, no change
update_session(table, sid, status, code) ==
    IF sid \notin DOMAIN table THEN table
    ELSE [table EXCEPT ![sid] = [status |-> status,
                                 exit_code |-> IF code = JNone THEN @.exit_code ELSE code]]

\* AgentSpawner.spawn_agent.  outcome: "bad_tool" (_build_command raises
\* ValueError), "popen_fails" (Popen raises), "storage_fails" (create_session
\* raises) or "ok"
spawn_agent(outcome) ==
    /\ session_count < MaxSessions
    /\ LET sid == session_count + 1 IN
       /\ session_count' = sid
       /\ sp_call' = [op |-> "spawn_agent", sid |-> sid, raised |-> outcome # "ok"]
       /\ IF outcome \in {"bad_tool", "popen_fails"}
          THEN UNCHANGED <<active_sessions, child, agent_sessions>>
          ELSE /\ child' = [child EXCEPT ![sid] = "running"]
               /\ active_sessions' = with_key(active_sessions, sid,
                                              [session_id |-> sid, process |-> sid])
               /\ agent_sessions' =
                      IF outcome = "ok"
                      THEN with_key(agent_sessions, sid, [status |-> "running", exit_code |-> JNone])
                      ELSE agent_sessions
    /\ UNCHANGED <<exit_code, returncode_of>>

\* the process of a session ends by itself
child_done(sid, code) ==
    /\ child[sid] = "running"
    /\ child' = [child EXCEPT ![sid] = "exited"]
    /\ exit_code' = [exit_code EXCEPT ![sid] = JNum(code)]
    /\ UNCHANGED <<active_sessions, session_count, returncode_of, agent_sessions, sp_call>>

\* AgentSpawner.update_session_status
update_session_status(sid, storage_ok) ==
    /\ sp_call' = [op |-> "update_session_status", sid |-> sid,
                   raised |-> sid \in DOMAIN active_sessions /\ ~storage_ok]
    /\ IF sid \notin DOMAIN active_sessions
       THEN UNCHANGED <<returncode_of, agent_sessions>>
       ELSE /\ returncode_of' = [returncode_of EXCEPT ![sid] = poll(sid)]
            /\ agent_sessions' =
                   IF storage_ok
                   THEN update_session(agent_sessions, sid, get_status(sid), poll(sid))
                   ELSE agent_sessions
    /\ UNCHANGED <<active_sessions, session_count, child, exit_code>>

\* AgentSpawner.terminate_session.  in_time: the process ends on SIGTERM (-15)
\* within the five seconds of wait(); otherwise it is killed (-9) and
\* returncode stays None
terminate_session(sid, in_time, storage_ok) ==
    /\ sp_call' = [op |-> "terminate_session", sid |-> sid,
                   raised |-> sid \in DOMAIN active_sessions /\ ~storage_ok]
    /\ IF sid \notin DOMAIN active_sessions
       THEN UNCHANGED <<active_sessions, child, exit_code, returncode_of, agent_sessions>>
       ELSE LET code == IF child[sid] = "exited" THEN exit_code[sid]
                        ELSE IF in_time THEN JNum(0 - 15) ELSE JNum(0 - 9)
                rc == IF child[sid] = "exited" \/ in_time THEN code ELSE returncode_of[sid]
            IN /\ child' = [child EXCEPT ![sid] = "exited"]
               /\ exit_code' = [exit_code EXCEPT ![sid] = code]
               /\ returncode_of' = [returncode_of EXCEPT ![sid] = rc]
               /\ IF storage_ok
                  THEN /\ agent_sessions' =
                              update_session(agent_sessions, sid,
                                             IF rc # JNum(0) THEN "crashed" ELSE "completed", rc)
                       /\ active_sessions' = without_keys(active_sessions, {sid})
                  ELSE UNCHANGED <<agent_sessions, active_sessions>>
    /\ UNCHANGED session_count

\* cleanup_finished_sessions: the session ids with "not session.is_running()"
finished == {sid \in DOMAIN active_sessions : ~is_running(sid)}

\* AgentSpawner.cleanup_finished_sessions.  bad: 0, or the finished session
\* whose storage update raises; the sessions before it (in the order of the
\* dict, the order of insertion) have been updated and removed by then
cleanup_finished_sessions(bad) ==
    /\ bad \in {0} \cup finished
    /\ LET done == IF bad = 0 THEN finished ELSE {sid \in finished : sid < bad} IN
       /\ sp_call' = [op |-> "cleanup_finished_sessions", sid |-> 0, raised |-> bad # 0]
       /\ returncode_of' = [sid \in SpawnerIds |->
                               IF sid \in DOMAIN active_sessions THEN poll(sid) ELSE returncode_of[sid]]
       /\ agent_sessions' = [sid \in DOMAIN agent_sessions |->
                                IF sid \in done
                                THEN update_session(agent_sessions, sid, get_status(sid), poll(sid))[sid]
                                ELSE agent_sessions[sid]]
       /\ active_sessions' = without_keys(active_sessions, done)
    /\ UNCHANGED <<session_count, child, exit_code>>

NextSpawner ==
    \/ \E outcome \in {"ok", "bad_tool", "popen_fails", "storage_fails"} :
           spawn_agent(outcome) /\ UNCHANGED <<runtime_vars, stream_vars, lock_vars, text_vars, telegram_vars>>
    \/ \E sid \in SpawnerIds : \E code \in ExitCodes :
           child_done(sid, code) /\ UNCHANGED <<runtime_vars, stream_vars, lock_vars, text_vars, telegram_vars>>
    \/ \E sid \in SpawnerIds : \E storage_ok \in BOOLEAN :
           update_session_status(sid, storage_ok)
               /\ UNCHANGED <<runtime_vars, stream_vars, lock_vars, text_vars, telegram_vars>>
    \/ \E sid \in SpawnerIds : \E in_time \in BOOLEAN : \E storage_ok \in BOOLEAN :
           terminate_session(sid, in_time, storage_ok)
               /\ UNCHANGED <<runtime_vars, stream_vars, lock_vars, text_vars, telegram_vars>>
    \/ \E bad \in {0} \cup SpawnerIds :
           cleanup_finished_sessions(bad)
               /\ UNCHANGED <<runtime_vars, stream_vars, lock_vars, text_vars, telegram_vars>>

(* ====================================================================== *)
(* TelegramClient (telegram_client.py): the polling thread, the stored     *)
(* offset and the handlers.  The server numbers the updates 1, 2, ... and  *)
(* getUpdates(offset) answers with the updates from that id on, oldest     *)
(* first.                                                                  *)
(* ====================================================================== *)
\* number of updates the server receives
MaxUpdates == 3
\* an update is a message of the configured chat, a callback query of that
\* chat, or belongs to another chat
UpdateKinds == {"message", "callback", "other_chat"}

TelegramInit ==
    /\ offset = 0
    /\ poll_stop = FALSE
    /\ tpc = "idle"
    /\ batch = <<>>
    /\ upd = 0
    /\ updates = <<>>
    /\ handled = [u \in 1..MaxUpdates |-> 0]
    /\ failed = {}

\* max(a, b)
Max(a, b) == IF a >= b THEN a ELSE b

\* a user sends an update to the bot
new_update(kind) ==
    /\ Len(updates) < MaxUpdates
    /\ updates' = Append(updates, kind)
    /\ UNCHANGED <<offset, poll_stop, tpc, batch, upd, handled, failed>>

\* TelegramClient.start_polling: nothing when the thread is alive
start_polling ==
    /\ tpc \in {"idle", "done"}
    /\ poll_stop' = FALSE
    /\ tpc' = "head"
    /\ UNCHANGED <<offset, batch, upd, updates, handled, failed>>

\* TelegramClient.stop
stop_polling ==
    /\ ~poll_stop
    /\ poll_stop' = TRUE
    /\ UNCHANGED <<offset, tpc, batch, upd, updates, handled, failed>>

\* _run: "while not self._stop.is_set()" ends the thread
run_exit ==
    /\ tpc = "head"
    /\ poll_stop
    /\ tpc' = "done"
    /\ UNCHANGED <<offset, poll_stop, batch, upd, updates, handled, failed>>

\* _run: self._get_updates().  ok: the request succeeds and n of the updates
\* from self._offset on come back; otherwise it raises and the loop sleeps
get_updates(ok, n) ==
    /\ tpc = "head"
    /\ ~poll_stop
    /\ LET from == Max(offset, 1)
           pending == [i \in 1..(Len(updates) + 1 - from) |-> from + i - 1]
       IN IF ok /\ n <= Len(pending) /\ (n > 0 \/ pending = <<>>)
          THEN /\ batch' = SubSeq(pending, 1, n)
               /\ tpc' = "loop"
          ELSE UNCHANGED <<batch, tpc>>
    /\ UNCHANGED <<offset, poll_stop, upd, updates, handled, failed>>

\* mutant: the loop goes to the next update without moving the offset
next_update_keeps_offset ==
    /\ tpc = "loop"
    /\ IF batch = <<>>
       THEN tpc' = "head" /\ UNCHANGED <<offset, batch, upd>>
       ELSE /\ upd' = Head(batch)
            /\ batch' = Tail(batch)
            /\ offset' = offset
            /\ tpc' = "handle"
    /\ UNCHANGED <<poll_stop, updates, handled, failed>>

\* _run: "for upd in updates": the next update and the new offset, or the end
\* of the batch and the sleep
next_update ==
    /\ tpc = "loop"
    /\ IF batch = <<>>
       THEN tpc' = "head" /\ UNCHANGED <<offset, batch, upd>>
       ELSE /\ upd' = Head(batch)
            /\ batch' = Tail(batch)
            /\ offset' = Max(offset, Head(batch) + 1)
            /\ tpc' = "handle"
    /\ UNCHANGED <<poll_stop, updates, handled, failed>>

\* _run: the body of the loop for one update: on_callback or on_message is
\* called for an update of the configured chat; a handler that raises ends
\* the batch ("except Exception: pass") and the loop sleeps
handle_update(raises) ==
    /\ tpc = "handle"
    /\ upd' = 0
    /\ IF updates[upd] = "other_chat"
       THEN /\ tpc' = "loop"
            /\ UNCHANGED <<batch, handled, failed>>
       ELSE /\ handled' = [handled EXCEPT ![upd] = @ + 1]
            /\ IF raises
               THEN /\ failed' = failed \cup {upd}
                    /\ batch' = <<>>
                    /\ tpc' = "head"
               ELSE /\ tpc' = "loop"
                    /\ UNCHANGED <<batch, failed>>
    /\ UNCHANGED <<offset, poll_stop, updates>>

NextTelegram ==
    \/ \E kind \in UpdateKinds :
           new_update(kind) /\ UNCHANGED <<runtime_vars, stream_vars, lock_vars, text_vars, spawner_vars>>
    \/ start_polling /\ UNCHANGED <<runtime_vars, stream_vars, lock_vars, text_vars, spawner_vars>>
    \/ stop_polling /\ UNCHANGED <<runtime_vars, stream_vars, lock_vars, text_vars, spawner_vars>>
    \/ run_exit /\ UNCHANGED <<runtime_vars, stream_vars, lock_vars, text_vars, spawner_vars>>
    \/ \E ok \in BOOLEAN : \E n \in 0..MaxUpdates :
           get_updates(ok, n) /\ UNCHANGED <<runtime_vars, stream_vars, lock_vars, text_vars, spawner_vars>>
    \/ next_update /\ UNCHANGED <<runtime_vars, stream_vars, lock_vars, text_vars, spawner_vars>>
    \/ \E raises \in BOOLEAN :
           handle_update(raises) /\ UNCHANGED <<runtime_vars, stream_vars, lock_vars, text_vars, spawner_vars>>

(* --------------------------- specifications --------------------------- *)
\* the agent runtime, with a provider that is not the streaming one
Init == RuntimeInit /\ StreamInit("") /\ LockInit /\ TextInit("", <<>>) /\ SpawnerInit /\ TelegramInit
Spec == Init /\ [][Next]_vars

\* the agent runtime with submit calls that overlap other calls
SpecRace == Init /\ [][NextRace]_vars

\* the agent runtime with the history of its stop calls
SpecStop == Init /\ [][NextStop]_vars

\* one streaming provider instance and its caller
InitStream == RuntimeInit /\ LockInit /\ TextInit("", <<>>) /\ SpawnerInit /\ TelegramInit /\ \E instr \in Instructions : StreamInit(instr)
SpecStream == InitStream /\ [][NextStream]_vars

\* the live provider and its caller: the calling thread is scheduled and
\* time passes; nothing makes the child write or exit
SpecLive ==
    /\ InitStream
    /\ [][NextLive]_vars
    /\ WF_vars(live_caller /\ UNCHANGED outside_stream)
    /\ WF_vars(live_tick /\ UNCHANGED outside_stream)

\* _content_to_text on every text and every list of up to MaxBlocks texts
InitText ==
    /\ RuntimeInit /\ StreamInit("") /\ LockInit /\ SpawnerInit /\ TelegramInit
    /\ \E s \in BlockTexts : \E blocks \in UNION {[1..n -> BlockTexts] : n \in 0..MaxBlocks} :
           TextInit(s, blocks)
SpecText == InitText /\ [][NextText]_vars

\* the agent runtime with one worker, its thread scheduled again and again
SpecFair ==
    /\ Init /\ [][NextFair]_vars
    /\ \A a \in AgentIds : WF_vars(run(a) /\ UNCHANGED <<outside_runtime, stop_at>>)

\* the Telegram polling thread and the server
SpecTelegram == Init /\ [][NextTelegram]_vars

\* the AgentSpawner, its processes and its storage table
SpecSpawner == Init /\ [][NextSpawner]_vars

\* several threads calling generate on one streaming provider
SpecLock == Init /\ [][NextLock]_vars

\* the streaming provider and a child whose events may carry no text
SpecEmpty == InitStream /\ [][NextEmpty]_vars

\* the streaming provider and a child that reports errors
SpecError == InitStream /\ [][NextError]_vars

\* the streaming provider and a child that also emits unusable lines
SpecReader == InitStream /\ [][NextReader]_vars

(* ======================= properties of the runtime ==================== *)
spawned(a) == pc[a] # "none"
\* the stored conversation of agent a (none before it is spawned)
rows(a) == IF spawned(a) THEN messages[spec[a].session_id] ELSE <<>>

RECURSIVE contents_of(_, _)
contents_of(rs, role) ==
    IF rs = <<>> THEN <<>>
    ELSE (IF Head(rs).role = role THEN <<Head(rs).content>> ELSE <<>>)
         \o contents_of(Tail(rs), role)

Range(s) == {s[i] : i \in 1..Len(s)}
Last(s) == s[Len(s)]
LastN(s, n) == IF Len(s) <= n THEN s ELSE SubSeq(s, Len(s) - n + 1, Len(s))

\* C1: the user turns stored for an agent, then the text its worker has taken
\* from the mailbox and not stored yet, then the texts still in the mailbox,
\* are together exactly the texts enqueued for that agent, in enqueue order:
\* nothing is reordered, duplicated or lost.
C1_Fifo ==
    \A a \in AgentIds :
        spawned(a) =>
            contents_of(rows(a), "user")
              \o (IF pc[a] = "got" THEN <<user_text[a]>> ELSE <<>>)
              \o inbox[a]
            = enqueued[a]

\* two texts were enqueued for one agent and both are stored
C1_Witness ==
    \E a \in AgentIds :
        /\ Len(enqueued[a]) >= 2
        /\ contents_of(rows(a), "user") = enqueued[a]

\* C2: in every conversation an assistant turn directly follows a user turn,
\* a user turn that is not the last stored turn is directly followed by an
\* assistant turn, and a user turn that is the last stored turn is the one
\* the worker is processing.
C2_Alternation ==
    \A a \in AgentIds :
        spawned(a) =>
            \A k \in 1..Len(rows(a)) :
                /\ rows(a)[k].role = "assistant" =>
                      k > 1 /\ rows(a)[k - 1].role = "user"
                /\ (rows(a)[k].role = "user" /\ k < Len(rows(a))) =>
                      rows(a)[k + 1].role = "assistant"
                /\ (rows(a)[k].role = "user" /\ k = Len(rows(a))) =>
                      /\ pc[a] \in {"ctx", "gen", "reply"}
                      /\ rows(a)[k].content = user_text[a]

\* a conversation with one answered user turn and a second one in flight
C2_Witness ==
    \E a \in AgentIds :
        /\ Len(rows(a)) = 4
        /\ rows(a)[3].role = "assistant"
        /\ rows(a)[4].role = "user"
        /\ pc[a] = "gen"

\* C3: at most one generate call is in flight against a provider instance.
C3_OneGeneratePerProvider ==
    \A a, b \in AgentIds :
        (pc[a] = "gen" /\ pc[b] = "gen" /\ provider[a] = provider[b]) => a = b

\* C4: a worker thread ends only after stop() was signalled, and every
\* generate call that raised has its error text as the assistant turn of its
\* user turn (or as the reply about to be stored).
C4_ErrorBecomesTurn ==
    \A a \in AgentIds :
        /\ pc[a] = "done" => stop_flag[a]
        /\ \A k \in 1..Len(outcomes[a]) :
              LET stored == contents_of(rows(a), "assistant")
                  text == IF outcomes[a][k].raised
                             THEN error_reply(outcomes[a][k].val)
                             ELSE outcomes[a][k].val
              IN IF k <= Len(stored)
                    THEN stored[k] = text
                    ELSE k = Len(outcomes[a]) /\ pc[a] = "reply" /\ reply[a] = text

\* generate raised on the first turn of a worker, the error text is stored and
\* the worker has gone on to complete its next turn
C4_Witness ==
    \E a \in AgentIds :
        /\ Len(outcomes[a]) = 2
        /\ outcomes[a][1].raised
        /\ Len(contents_of(rows(a), "assistant")) = 2
        /\ contents_of(rows(a), "assistant")[1] = error_reply(outcomes[a][1].val)

\* C5: the history given to generate is the most recent max_context_messages
\* stored turns of the conversation, user and assistant roles only, in storage
\* order (the window taken before or after the roles are filtered).
C5_RecentWindow ==
    \A a \in AgentIds :
        pc[a] = "gen" =>
            \/ msgs[a] = build_msgs(LastN(rows(a), max_context_messages))
            \/ msgs[a] = LastN(build_msgs(rows(a)), max_context_messages)

\* the texts a caller addresses to agent a
TextsFor(a) == {"t" \o ToString(a) \o "." \o ToString(k) : k \in 1..MaxSubmit}

\* C6: two agents have different conversations, and a text submitted to one
\* is neither in the other's mailbox, nor held by the other's worker, nor
\* stored in the other's conversation.
C6_Isolation ==
    \A a, b \in AgentIds :
        (a # b /\ spawned(a) /\ spawned(b)) =>
            /\ spec[a].session_id # spec[b].session_id
            /\ Range(inbox[b]) \cap TextsFor(a) = {}
            /\ user_text[b] \notin TextsFor(a)
            /\ {r.content : r \in Range(rows(b))} \cap TextsFor(a) = {}
            /\ {m.content : m \in Range(msgs[b])} \cap TextsFor(a) = {}

\* two agents of the same name, each with its own text stored
C6_Witness ==
    \E a, b \in AgentIds :
        /\ a # b
        /\ spec[a].name = spec[b].name
        /\ contents_of(rows(a), "user") # <<>>
        /\ contents_of(rows(b), "user") # <<>>

\* C7: a submit call with an unregistered id returns False and changes
\* nothing else; with a registered id it appends the text to that worker's
\* mailbox, changes no other mailbox, no registry entry and no stored row, and
\* returns True.
C7_Submit ==
    [][\A agent_id \in CallIds : \A text \in Texts(agent_id) :
          submit(agent_id, text) =>
             /\ ret'.op = "submit"
             /\ UNCHANGED <<storage_vars, mgr_agents, stop_flag, pc, worker_locals>>
             /\ IF agent_id \in mgr_agents
                   THEN /\ ret'.val = TRUE
                        /\ inbox' = [inbox EXCEPT ![agent_id] = Append(@, text)]
                   ELSE /\ ret'.val = FALSE
                        /\ inbox' = inbox]_vars

\* a submit call has just returned False while an agent is registered whose
\* mailbox holds an accepted text
C7_Witness ==
    /\ ret = [op |-> "submit", val |-> FALSE]
    /\ \E a \in mgr_agents : inbox[a] # <<>>

\* C8: a stop call returns True exactly when its id is registered; then the
\* worker's stop flag is set and the id is unregistered; and submit and stop
\* calls with an id whose stop has returned True return False.
C8_Stop ==
    [][\A agent_id \in CallIds :
          /\ stop(agent_id) =>
                /\ ret'.op = "stop"
                /\ ret'.val = (agent_id \in mgr_agents)
                /\ ret'.val => (stop_flag'[agent_id] /\ agent_id \notin mgr_agents')
                /\ agent_id \in stop_true => ret'.val = FALSE
          /\ (\E text \in Texts(agent_id) : submit(agent_id, text)) =>
                (agent_id \in stop_true => ret'.val = FALSE)]_vars

\* every spawned agent has been stopped and a later stop call returned False
C8_Witness ==
    /\ stop_true # {}
    /\ stop_true = spawn_ret
    /\ Len(agents) = MaxSpawn
    /\ ret = [op |-> "stop", val |-> FALSE]

C15_StopKeepsMailbox ==
    \A a \in AgentIds :
        (spawned(a) /\ pc[a] = "done") =>
            inbox[a] = SubSeq(enqueued[a], Len(contents_of(rows(a), "user")) + 1,
                              Len(enqueued[a]))

\* a worker has terminated with a text left in its mailbox
C15_Witness ==
    \E a \in AgentIds : spawned(a) /\ pc[a] = "done" /\ stop_flag[a] /\ inbox[a] # <<>>

\* C16: once stop() has been called on a worker, no step adds a text to
\* its mailbox.
C16_NoSubmitAfterStop ==
    [][\A a \in AgentIds : stop_flag[a] => Len(inbox'[a]) <= Len(inbox[a])]_vars

\* C18: the step that appends the assistant turn of an agent calls the reply
\* callback once, with that agent's identity and the assistant text; no
\* other step calls it.
C18_ReplyCallback ==
    [][LET completed == {a \in AgentIds : pc[a] = "reply" /\ pc'[a] = "loop"}
       IN IF completed = {}
             THEN delivered' = delivered
             ELSE \E a \in completed :
                      delivered' = Append(delivered, [agent |-> spec[a], text |-> reply[a]])]_vars

\* C19: once stop() has been called on a worker, no step of the worker
\* takes a text out of its mailbox.
C19_NoDequeueAfterStop ==
    [][\A a \in AgentIds : stop_flag[a] => Len(inbox'[a]) >= Len(inbox[a])]_vars

\* C20: a worker that was told to stop while a turn was in flight goes on
\* with that turn: the turn ends with its assistant turn appended to the
\* conversation, and the next step of the worker after that ends the thread,
\* with no text taken from the mailbox and no further call needed.
C20_InFlightTurnCompletes ==
    [][\A a \in AgentIds :
          (stop_flag[a] /\ stop_at[a] /\ pc'[a] # pc[a]) =>
              CASE pc[a] = "reply" ->
                       /\ pc'[a] = "loop"
                       /\ messages'[spec[a].session_id] =
                              Append(messages[spec[a].session_id],
                                     [role |-> "assistant", content |-> reply[a]])
                [] pc[a] \in InFlight \ {"reply"} -> pc'[a] \in InFlight
                [] pc[a] = "loop" -> pc'[a] = "done" /\ inbox'[a] = inbox[a]
                [] OTHER -> FALSE]_vars

\* a worker stopped during a turn has stored the reply of that turn and ended
C20_Witness ==
    \E a \in AgentIds :
        /\ stop_at[a]
        /\ pc[a] = "done"
        /\ Last(rows(a)).role = "assistant"
        /\ Len(contents_of(rows(a), "user")) = Len(outcomes[a])

(* =============== properties of the streaming provider ================ *)
\* a line emitted after the write of the running call and before its deadline
answered(line) == [line |-> line, written |-> TRUE, intime |-> TRUE, window |-> FALSE]

\* C10: when a generate call has returned and, from the start of the call
\* on, the child has emitted exactly an init event followed by one assistant
\* full-message event with text T, both after the call's write and before
\* its deadline, and no line of an earlier call was still unread, then the
\* call has returned exactly T.
C10_InitThenFullMessage ==
    \A e \in AssistantFull :
        (gpc = "idle" /\ calls > 0 /\ all_out = <<answered(EvInit), answered(e.line)>>)
            => result = e.text

\* C10 happens: a call has returned "Hallo" for an init event and a message
\* whose content is a list of blocks
C10_Witness ==
    /\ gpc = "idle"
    /\ calls > 0
    /\ all_out = <<answered(EvInit), answered(EvAssistantBlocks)>>
    /\ result = "Hallo"

\* the events that carry reply text, each with its text
Chunks == {[line |-> EvDelta, text |-> "He"]} \cup AssistantFull

\* the text of a chunk line
chunk_text(line) == (CHOOSE e \in Chunks : e.line = line).text

\* C11: when a call has returned and everything the child has emitted since
\* the call began are chunks, the first one before the deadline and each of
\* them after the write and before the 0.5 s that began with the first
\* chunk were over, and the reader has read them all, then the call has
\* returned all of them, in order.
C11_GraceWindow ==
    (/\ gpc = "idle"
     /\ calls > 0
     /\ all_out # <<>>
     /\ stdout_pipe = <<>>
     /\ all_out[1].written /\ all_out[1].intime
     /\ \A i \in 1..Len(all_out) :
            /\ all_out[i].line \in {e.line : e \in Chunks}
            /\ (all_out[i].written /\ all_out[i].intime) \/ all_out[i].window)
        => result = join([i \in 1..Len(all_out) |-> chunk_text(all_out[i].line)])

\* generate(): the value returned when nothing else applies
TimeoutSentinel == "[claude-cli timeout]"

\* the current child was launched by the last call and has written nothing
\* since, neither to its standard output nor to its standard error
silent_child == Len(stdin) = 1 /\ all_out = <<>>

\* C12: a call whose child has written no output at all and is still
\* running when the call returns has returned the timeout sentinel, and a
\* call that was given reply text before its deadline has not.
C12_TimeoutSentinel ==
    /\ (gpc = "idle" /\ calls > 0 /\ proc = "running" /\ silent_child)
           => result = TimeoutSentinel
    /\ (gpc = "idle" /\ calls > 0 /\ result = TimeoutSentinel)
           => \A i \in 1..Len(all_out) :
                  ~(/\ all_out[i].line \in {e.line : e \in Chunks}
                    /\ all_out[i].written
                    /\ all_out[i].intime)

\* generate(): the value returned for a child that has exited with code c
ExitedSentinel(c) == "[claude-cli exited " \o ToString(c) \o "]"

\* C13: a call that gives up waiting without any text (it returns from its
\* wait for the first chunk) while the child has exited returns the
\* process-exited sentinel with the exit code. Of the values generate can
\* return, this is the only one that contains the code.
C13_ExitedSentinel ==
    [][(gpc = "wait" /\ gpc' = "idle" /\ proc = "exited")
          => result' = ExitedSentinel(returncode)]_vars

\* C14: a line of no recognized shape is skipped: when everything the
\* child has emitted since a call began is such a line and then an
\* assistant message, both after the write and before the deadline, the
\* call has returned the text of the message.
C14_ReaderSurvives ==
    \A k \in SkippedLines :
        (/\ gpc = "idle"
         /\ calls > 0
         /\ all_out = <<answered(k), answered(EvAssistantStr)>>)
            => result = "Hallo"

\* the texts of the chunk events
ChunkTexts == {e.text : e \in Chunks}

\* what a call can return that is made of chunks
ChunkJoins ==
    {join(ps) : ps \in UNION {[1..n -> ChunkTexts] : n \in 1..MaxEmit}}

\* the texts of the chunks the child has emitted after the write of the
\* last call, in the order of their emission
written_texts ==
    LET w == SelectSeq(all_out, LAMBDA o : o.written /\ o.line \in {e.line : e \in Chunks})
    IN [i \in 1..Len(w) |-> chunk_text(w[i].line)]

\* C21: when a call has returned reply text, the text is made of chunks the
\* child emitted after the call wrote its user turn, taken in their order.
C21_OwnChunksOnly ==
    (gpc = "idle" /\ calls > 0 /\ result \in ChunkJoins)
        => \E j \in 1..Len(written_texts) : \E k \in j..Len(written_texts) :
               result = join(SubSeq(written_texts, j, k))

\* C22: a call that begins after the child has exited launches a child
\* with the session id of the exited one, with a new pair of reader threads
\* and its own standard input, before anything is written; and a user turn
\* is only ever added to the standard input of a child that is running.
C22_ReplacementBeforeWrite ==
    [][/\ (gpc = "idle" /\ gpc' = "write" /\ proc = "exited") =>
              /\ proc' = "running"
              /\ launch_session' = launch_session
              /\ readers' = readers + 1
              /\ ereaders' = ereaders + 1
              /\ stdin' = <<>>
       /\ (gpc = "write" /\ stdin' # stdin) =>
              /\ proc = "running"
              /\ stdin' = Append(stdin, outbound(payload))]_vars

\* the second call has written its user turn as the first line of the
\* standard input of a replacement child
C22_Witness ==
    /\ calls = 1
    /\ gpc = "wait"
    /\ proc = "running"
    /\ stdin = <<outbound("Hi")>>
    /\ launch_session = session_id

\* C23: at most one _reader thread and at most one _stderr_reader thread
\* are alive, each reading the current child.
C23_SingleReaders == readers <= 1 /\ ereaders <= 1

\* the content of a user turn that carries the instructions
with_instructions(user_content) ==
    instructions \o "\n\n---\n\nUser message:\n" \o user_content

\* C24: with instructions configured, the content a call builds for its
\* user turn is the instructions followed by the last user message for the
\* first call of the provider, and the last user message alone for every
\* later call.
C24_InstructionsOnce ==
    [][(gpc = "idle" /\ gpc' = "write" /\ instructions # "") =>
           \E ms \in CallMessages :
               payload' = IF calls = 0 THEN with_instructions(last_user_content(ms))
                          ELSE last_user_content(ms)]_vars

\* two user turns have been written to one child, the first with the
\* instructions and the second without
C24_Witness ==
    /\ instructions # ""
    /\ Len(stdin) = 2
    /\ stdin[1].message.content = with_instructions("Hi")
    /\ stdin[2].message.content = "Hi"

\* C25: while the readiness event has never been set, a call still writes
\* its user turn to a running child and goes on to wait for the reply; and
\* a call that returns with the readiness event never set, for which the
\* child has emitted exactly one assistant full-message event with text T,
\* after the write and before the deadline, returns T.
C25_ReadinessAdvisory ==
    [][/\ (gpc = "write" /\ gpc' # "write" /\ proc = "running" /\ ~ready_event) =>
              /\ gpc' = "wait"
              /\ stdin' = Append(stdin, outbound(payload))
       /\ \A e \in AssistantFull :
              (/\ gpc # "idle" /\ gpc' = "idle"
               /\ ~ready_event'
               /\ all_out' = <<answered(e.line)>>) => result' = e.text]_vars

\* a call has returned the reply of a child that never signalled readiness
C25_Witness ==
    /\ gpc = "idle"
    /\ calls > 0
    /\ ~ready_event
    /\ all_out = <<answered(EvAssistantStr)>>
    /\ result = "Hallo"

\* the line of a user turn with the given content
user_line(content) ==
    [type |-> "user", message |-> [role |-> "user", content |-> content],
     session_id |-> launch_session]

\* C26, as stated: every call that comes to its write adds exactly one line
\* of the user-turn shape to the child's standard input.
C26_EveryCallWrites ==
    [][(gpc = "write" /\ gpc' # "write") => stdin' = Append(stdin, user_line(payload))]_vars

\* C26, amended: a call that comes to its write while the child is running
\* adds exactly one line of the user-turn shape to the child's standard
\* input and waits for the reply; a call whose child has exited by then
\* adds nothing and returns the write error. No other step adds a line, and
\* every line on the standard input of any child of the provider carries the
\* session id of the provider.
C26_OneLinePerWrite ==
    [][/\ (gpc = "write" /\ gpc' # "write") =>
              IF proc = "running"
                 THEN stdin' = Append(stdin, user_line(payload)) /\ gpc' = "wait"
                 ELSE stdin' = stdin /\ result' = "[claude-cli write error] Broken pipe"
       /\ gpc # "write" => stdin' \in {stdin, <<>>}
       /\ \A i \in 1..Len(stdin') : stdin'[i].session_id = session_id]_vars

\* a second call has written its line to the child the first call wrote to
C26_Witness ==
    /\ calls = 1
    /\ gpc = "wait"
    /\ Len(stdin) = 2
    /\ stdin[2] = user_line("Hi")
    /\ stdin[1].session_id = stdin[2].session_id

\* generate(): the chunk the reader enqueues for an error event
ErrorChunk(err) == "[claude-cli error] " \o err

\* C27: when a call has returned and the child has emitted exactly one
\* error event since the call began, after the write and before the
\* deadline, the error text is the last error and the call has returned the
\* chunk that carries it, which is what a call returns whose wait was ended
\* by a chunk and not by the deadline.
C27_ErrorWakesCaller ==
    (gpc = "idle" /\ calls > 0 /\ all_out = <<answered(EvError)>>)
        => /\ last_error = "overloaded"
           /\ result = ErrorChunk("overloaded")

\* a call has returned the error chunk
C27_Witness ==
    /\ gpc = "idle"
    /\ calls = 1
    /\ all_out = <<answered(EvError)>>
    /\ result = ErrorChunk("overloaded")

\* C28: at most one calling thread is inside the locked block, and the
\* drain, the write and the flush of one call are never separated by a drain,
\* a write or a flush of another call.
C28_LockedBlockAtomic ==
    /\ Cardinality({c \in Callers : lpc[c] \in Locked}) <= 1
    /\ \A i \in 1..Len(oplog) : \A k \in i..Len(oplog) :
           oplog[i].call = oplog[k].call =>
               \A j \in i..k : oplog[j].call = oplog[i].call

\* two calls of different threads that overlapped have each drained, written
\* and flushed
C28_Witness ==
    /\ Len(oplog) = 6
    /\ oplog[1].caller # oplog[4].caller
    /\ oplog[3].op = "flush"
    /\ oplog[6].op = "flush"
    /\ \A c \in Callers : lpc[c] = "release" \/ lpc[c] = "wait"

\* C29: _content_to_text gives s for the plain string s, for the single text
\* block carrying s and for the one-element list holding that block, and for a
\* list of text blocks it gives their texts concatenated in list order.
RECURSIVE in_order(_)
in_order(texts) == IF texts = <<>> THEN "" ELSE in_order(SubSeq(texts, 1, Len(texts) - 1)) \o texts[Len(texts)]
C29_ShapesUniform ==
    /\ \A shape \in {"str", "block", "list1"} : ct_out[shape] \in {<<>>, <<ct_s>>}
    /\ ct_out["list"] \in {<<>>, <<in_order(ct_blocks)>>}

\* every shape has been extracted, for a text that is not empty and a list of
\* several different blocks
C29_Witness ==
    /\ ct_s = "Moin"
    /\ ct_blocks = <<"Hal", "lo", "">>
    /\ ct_out = [shape \in Shapes |-> IF shape = "list" THEN <<"Hallo">> ELSE <<"Moin">>]

\* the final status of an exited process, as update_session_status records it
final_row(sid) ==
    [status |-> IF exit_code[sid] = JNum(0) THEN "completed" ELSE "failed",
     exit_code |-> exit_code[sid]]

\* a step that is a cleanup_finished_sessions call which returns
cleanup_returns ==
    /\ sp_call'.op = "cleanup_finished_sessions" /\ ~sp_call'.raised
    /\ child' = child

\* C30: a session id returned by spawn_agent is answered by get_session with
\* its session until terminate_session or cleanup_finished_sessions removes
\* it; a cleanup_finished_sessions call removes exactly the active sessions
\* whose process has exited, leaves the running ones, and the storage row of
\* every removed session then holds its final status and exit code.
C30_SessionsUntilCleanup ==
    [][/\ \A sid \in SpawnerIds :
              (session_count' # session_count /\ sp_call'.sid = sid /\ ~sp_call'.raised) =>
                  get_session(sid)' = [session_id |-> sid, process |-> sid]
       /\ \A sid \in DOMAIN active_sessions :
              \/ get_session(sid)' = get_session(sid)
              \/ sp_call'.op = "terminate_session" /\ sp_call'.sid = sid
              \/ sp_call'.op = "cleanup_finished_sessions" /\ child[sid] = "exited"
       /\ cleanup_returns =>
              /\ DOMAIN active_sessions' = {sid \in DOMAIN active_sessions : child[sid] = "running"}
              /\ \A sid \in DOMAIN active_sessions \ DOMAIN active_sessions' :
                     /\ sid \in DOMAIN agent_sessions'
                     /\ agent_sessions'[sid] = final_row(sid)]_vars

\* C36: a spawn_agent call that raises leaves the active sessions as they
\* were, and a process it started has an entry in the active sessions or in
\* storage.
C36_FailedSpawnLeavesNothing ==
    [][(session_count' # session_count /\ sp_call'.raised) =>
           /\ active_sessions' = active_sessions
           /\ \A sid \in SpawnerIds :
                  (child[sid] = "none" /\ child'[sid] = "running") =>
                      sid \in DOMAIN active_sessions' \/ sid \in DOMAIN agent_sessions']_vars

\* C35: every agent in the registry of the AgentManager has the stored status
\* running; every agent for which stop returned True has the stored status
\* stopped and is not in the registry.
C35_StatusMatchesRegistry ==
    /\ \A a \in mgr_agents : agents[a].status = "running"
    /\ \A a \in stop_true : agents[a].status = "stopped" /\ a \notin mgr_agents

\* one agent has been stopped while another one is still registered
C35_Witness ==
    /\ stop_true # {}
    /\ mgr_agents # {}
    /\ \A a \in stop_true : agents[a].status = "stopped"
    /\ ret = [op |-> "stop", val |-> TRUE]

C37_AtMostOnce ==
    [][/\ \A u \in 1..MaxUpdates : handled'[u] <= 1
       /\ offset' >= offset
       /\ \A u \in 1..MaxUpdates : handled'[u] # handled[u] => offset > u
       /\ \A u \in 1..Len(updates') :
              (updates'[u] # "other_chat" /\ handled'[u] = 0) =>
                  \/ u >= offset'
                  \/ u = upd'
                  \/ \E i \in 1..Len(batch') : batch'[i] = u]_vars

\* the handler of the first update of a batch raised, and the update that
\* followed it in the batch has been handled after a later poll
C37_Witness ==
    /\ failed = {1}
    /\ handled = [u \in 1..MaxUpdates |-> IF u <= 2 THEN 1 ELSE 0]
    /\ Len(updates) = 2
    /\ offset = 3
    /\ tpc = "head"

\* C32: with every worker thread scheduled again and again and every generate
\* call returning or raising, the k-th text enqueued for a worker is
\* eventually stored as a user turn and its assistant turn after it, unless
\* stop() is called on the worker.
C32_EnqueuedIsAnswered ==
    \A a \in AgentIds : \A k \in 1..MaxSubmit :
        (Len(enqueued[a]) >= k)
            ~> (\/ stop_flag[a]
                \/ /\ Len(contents_of(rows(a), "user")) >= k
                   /\ Len(contents_of(rows(a), "assistant")) >= k)

\* two texts enqueued for a worker that was not stopped are both stored and
\* answered
C32_Witness ==
    \E a \in AgentIds :
        /\ ~stop_flag[a]
        /\ Len(enqueued[a]) = 2
        /\ contents_of(rows(a), "user") = enqueued[a]
        /\ Len(contents_of(rows(a), "assistant")) = 2
        /\ pc[a] = "wait"

\* C33: a diagnostic text returned by a call in place of the timeout sentinel
\* was captured from the standard error after that call wrote its user turn.
C33_DiagnosticOfThisCall ==
    \A text \in StderrLines :
        (gpc = "idle" /\ calls > 0 /\ result = "[claude-cli stderr] " \o text)
            => \E i \in 1..Len(all_out) :
                   /\ all_out[i].line = [ok |-> FALSE, stderr |-> text]
                   /\ all_out[i].written

\* C34: when the write of the line that carries the standing instructions
\* fails, the first-turn-sent flag is false after the call, so that a later
\* call prepends the instructions again.
C34_FlagFollowsWrite ==
    [][(/\ gpc = "write" /\ gpc' = "idle"
        /\ instructions # ""
        /\ \E ms \in CallMessages : payload = with_instructions(last_user_content(ms))
        /\ stdin' = stdin)
           => ~first_message_sent']_vars

\* C31: when a worker calls generate for a mailbox item, the content the
\* streaming provider makes of the messages it is given (the instructions
\* aside, none are configured here) is the text of that mailbox item.
C31_TurnIsMailboxItem ==
    \A a \in AgentIds :
        pc[a] = "gen" => build_content(last_user_content(msgs[a])) = user_text[a]

(* ============== properties of the live streaming provider ============= *)
\* C17: every generate call of the live provider that has written its user
\* turn returns.
C17_LiveReturns == (gpc \in {"read", "readline"}) ~> (gpc = "idle")

====
